---------------------------- MODULE Spec2Model ----------------------------
(***************************************************************************)
(* Tenant risk / behaviour scoring of the landlord tenantController.js     *)
(* (src/unnamed/part_000).                                                 *)
(*                                                                         *)
(* Numbers.  paymentReliability is the JavaScript double                   *)
(* (onTime / total) * 100.  It is modelled as the exact rational           *)
(* [n |-> onTime * 100, d |-> total]; for every total below 400 the        *)
(* double compares with the thresholds 50, 70, 80, 85 and 90 exactly as    *)
(* the rational does, and Math.round agrees with the rational rounding     *)
(* for every total below 40.                                               *)
(* Time is counted in ticks, DayMs ticks to the day.                       *)
(***************************************************************************)
EXTENDS Integers, Sequences, FiniteSets, TLC

VARIABLES
    tenant,   \* the tenant row with its relations, as stored
    now,      \* the wall clock read by new Date()
    locals,   \* the local constants of the last handler that ran
    resp,     \* the last response / return value
    args,     \* the arguments of the helper call being evaluated
    db,       \* the rows the admin, message and application handlers write
    calls     \* the handler calls in flight, one per client

vars == <<tenant, now, locals, resp, args, db, calls>>

-----------------------------------------------------------------------------
(* Bounds of the model *)

MaxOnTime == 3      \* ONTIME payments of the first lease
MaxLate == 1        \* LATE payments of the first lease
MaxRecent == 3      \* maintenance requests inside the 30 day window
MaxOldPairs == 3    \* pairs of maintenance requests outside the 30 day window
MaxTicks == 1       \* ticks the clock may advance
RelDen == 2         \* reliabilities k / RelDen are fed to the helpers
MaxCount == 7       \* largest maintenanceCount fed to the helpers
MaxRecentArg == 4   \* largest recentMaintenanceCount fed to the helpers
MaxDelayLen == 2    \* payments fed to calculateAveragePaymentDelay
MaxDelayArg == 2    \* largest averageDelay fed to the detailed narrative
MaxRequestLen == 2  \* requests fed to categorizeMaintenanceRequests
MaxLeaseLen == 2    \* leases fed to calculateAverageLeaseDuration
MaxTrendLen == 4    \* payments per lease of the tenants whose report is built
MaxRenewalLen == 3  \* leases fed to calculateRenewalRate
MaxUnits == 2       \* units those leases are spread over
MaxClients == 2     \* clients calling the handlers concurrently
MaxCallsEach == 2   \* calls each client makes
MaxPeople == 2      \* users that open conversations with each other
MaxMessages == 2    \* messages stored before the first call

(* Program constants, scaled *)

DayMs == 2          \* 1000 * 60 * 60 * 24, in ticks
Now0 == 200         \* the clock at the start

NoDate == -1        \* null / undefined date field

-----------------------------------------------------------------------------
(* JavaScript arithmetic on exact rationals [n, d], d > 0 *)

Rat(n, d) == [n |-> n, d |-> d]

RatLt(x, k) == x.n < k * x.d
RatGe(x, k) == x.n >= k * x.d
RatLe(x, k) == x.n <= k * x.d
RatGt(x, k) == x.n > k * x.d

\* 100 - x
HundredMinus(x) == Rat(100 * x.d - x.n, x.d)

\* mutant: Math.floor
MathRoundDown(x) == x.n \div x.d

\* Math.round: the integer nearest to x, halves rounded up
MathRound(x) == (2 * x.n + x.d) \div (2 * x.d)

\* Math.ceil(a / b), b > 0
MathCeil(a, b) == -((-a) \div b)

MathMax(a, b) == IF a >= b THEN a ELSE b

-----------------------------------------------------------------------------
(* Array helpers *)

\* mutant: only the payments already paid are collected
RECURSIVE FlatMapPaidPayments(_)
FlatMapPaidPayments(leases) ==
    IF leases = <<>> THEN <<>>
    ELSE LET IsPaid(payment) == payment.status = "PAID"
         IN SelectSeq(Head(leases).payments, IsPaid)
            \o FlatMapPaidPayments(Tail(leases))

RECURSIVE FlatMapPayments(_)
FlatMapPayments(leases) ==
    IF leases = <<>> THEN <<>>
    ELSE Head(leases).payments \o FlatMapPayments(Tail(leases))

Take(s, k) == SubSeq(s, 1, IF Len(s) < k THEN Len(s) ELSE k)

\* orderBy: { <field>: "desc" } as a stable insertion sort
RECURSIVE InsertDesc(_, _, _)
InsertDesc(x, s, field) ==
    IF s = <<>> THEN <<x>>
    ELSE IF x[field] >= Head(s)[field] THEN <<x>> \o s
         ELSE <<Head(s)>> \o InsertDesc(x, Tail(s), field)

RECURSIVE OrderByDesc(_, _)
OrderByDesc(s, field) ==
    IF s = <<>> THEN <<>>
    ELSE InsertDesc(Head(s), OrderByDesc(Tail(s), field), field)

\* the sequences over S of length at most k
RECURSIVE SeqsUpTo(_, _)
SeqsUpTo(S, k) ==
    IF k = 0 THEN { <<>> }
    ELSE LET shorter == SeqsUpTo(S, k - 1)
         IN shorter \cup { <<x>> \o q : x \in S, q \in { r \in shorter : Len(r) = k - 1 } }

-----------------------------------------------------------------------------
(* The scoring code of tenantController.js (landlord) *)

IsOnTime(payment) == payment.timingStatus \in {"ONTIME", "ADVANCE"}
IsLate(payment) == payment.timingStatus = "LATE"
IsAdvance(payment) == payment.timingStatus = "ADVANCE"

onTimePayments(allPayments) == Len(SelectSeq(allPayments, IsOnTime))
latePayments(allPayments) == Len(SelectSeq(allPayments, IsLate))
advancePayments(allPayments) == Len(SelectSeq(allPayments, IsAdvance))

\* mutant: a tenant without payments counts as fully reliable
paymentReliabilityEmpty100(allPayments) ==
    IF Len(allPayments) > 0
    THEN Rat(onTimePayments(allPayments) * 100, Len(allPayments))
    ELSE Rat(100, 1)

\* totalPayments > 0 ? (onTimePayments / totalPayments) * 100 : 0
paymentReliability(allPayments) ==
    IF Len(allPayments) > 0
    THEN Rat(onTimePayments(allPayments) * 100, Len(allPayments))
    ELSE Rat(0, 1)

\* thirtyDaysAgo.setDate(thirtyDaysAgo.getDate() - 30)
thirtyDaysAgo(clock) == clock - 30 * DayMs

\* mutant: a request created exactly 30 days ago still counts
recentMaintenanceCountInclusive(maintenanceRequests, clock) ==
    LET IsRecent(req) == req.createdAt >= thirtyDaysAgo(clock)
    IN Len(SelectSeq(maintenanceRequests, IsRecent))

recentMaintenanceCount(maintenanceRequests, clock) ==
    LET IsRecent(req) == req.createdAt > thirtyDaysAgo(clock)
    IN Len(SelectSeq(maintenanceRequests, IsRecent))

\* mutant: the reliability thresholds are inclusive
riskLevelInclusive(reliability, maintenanceCount, recentCount) ==
    IF RatLe(reliability, 70) \/ maintenanceCount > 5 \/ recentCount > 2
    THEN "HIGH"
    ELSE IF RatLe(reliability, 85) \/ maintenanceCount > 2 \/ recentCount > 1
         THEN "MEDIUM"
         ELSE "LOW"

\* mutant: the MEDIUM test compares the reliability the wrong way round
riskLevelFlipped(reliability, maintenanceCount, recentCount) ==
    IF RatLt(reliability, 70) \/ maintenanceCount > 5 \/ recentCount > 2
    THEN "HIGH"
    ELSE IF RatGt(reliability, 85) \/ maintenanceCount > 2 \/ recentCount > 1
         THEN "MEDIUM"
         ELSE "LOW"

\* mutant: two recent requests already force HIGH
riskLevelRecentTwo(reliability, maintenanceCount, recentCount) ==
    IF RatLt(reliability, 70) \/ maintenanceCount > 5 \/ recentCount > 1
    THEN "HIGH"
    ELSE IF RatLt(reliability, 85) \/ maintenanceCount > 2 \/ recentCount > 1
         THEN "MEDIUM"
         ELSE "LOW"

\* getLandlordTenants: let riskLevel = "LOW"; if (...) ... else if (...) ...
riskLevel(reliability, maintenanceCount, recentCount) ==
    IF RatLt(reliability, 70) \/ maintenanceCount > 5 \/ recentCount > 2
    THEN "HIGH"
    ELSE IF RatLt(reliability, 85) \/ maintenanceCount > 2 \/ recentCount > 1
         THEN "MEDIUM"
         ELSE "LOW"

\* getTenantDetails
paymentRiskLevel(reliability) ==
    IF RatLt(reliability, 70) THEN "HIGH"
    ELSE IF RatLt(reliability, 85) THEN "MEDIUM" ELSE "LOW"

maintenanceRiskLevel(maintenanceCount) ==
    IF maintenanceCount > 5 THEN "HIGH"
    ELSE IF maintenanceCount > 2 THEN "MEDIUM" ELSE "LOW"

overallRiskLevel(reliability, maintenanceCount) ==
    IF paymentRiskLevel(reliability) = "HIGH"
       \/ maintenanceRiskLevel(maintenanceCount) = "HIGH"
    THEN "HIGH"
    ELSE IF paymentRiskLevel(reliability) = "MEDIUM"
            \/ maintenanceRiskLevel(maintenanceCount) = "MEDIUM"
         THEN "MEDIUM"
         ELSE "LOW"

\* generateComprehensiveBehaviorReport: summary.overallRiskLevel
reportOverallRiskLevel(reliability, maintenanceCount) ==
    IF RatLt(reliability, 70) \/ maintenanceCount > 5 THEN "HIGH"
    ELSE IF RatLt(reliability, 85) \/ maintenanceCount > 2 THEN "MEDIUM"
         ELSE "LOW"

\* mutant: a reliability of zero is taken for "no data"
statsRiskLevelNoData(reliability, maintenanceLength) ==
    IF (reliability.n > 0 /\ RatLt(reliability, 70)) \/ maintenanceLength > 5
    THEN "HIGH"
    ELSE IF (reliability.n > 0 /\ RatLt(reliability, 85)) \/ maintenanceLength > 2
         THEN "MEDIUM"
         ELSE "LOW"

\* getTenantStats: the callback of riskLevels
statsRiskLevel(reliability, maintenanceLength) ==
    IF RatLt(reliability, 70) \/ maintenanceLength > 5 THEN "HIGH"
    ELSE IF RatLt(reliability, 85) \/ maintenanceLength > 2 THEN "MEDIUM"
         ELSE "LOW"

\* mutant: a recent burst of requests selects the High-risk sentence
generateBehaviorSummaryRecent(reliability, maintenanceCount, recentCount) ==
    IF recentCount > 2
    THEN "High-risk tenant with frequent payment issues and excessive maintenance requests."
    ELSE IF RatGe(reliability, 90) /\ maintenanceCount <= 1
    THEN "Excellent tenant with consistent on-time payments and minimal maintenance requests."
    ELSE IF RatGe(reliability, 80) /\ maintenanceCount <= 2
    THEN "Good tenant with mostly reliable payments and reasonable maintenance needs."
    ELSE IF RatGe(reliability, 70) /\ maintenanceCount <= 3
    THEN "Average tenant with some payment delays and moderate maintenance requests."
    ELSE "High-risk tenant with frequent payment issues and excessive maintenance requests."

generateBehaviorSummary(reliability, maintenanceCount, recentCount) ==
    IF RatGe(reliability, 90) /\ maintenanceCount <= 1
    THEN "Excellent tenant with consistent on-time payments and minimal maintenance requests."
    ELSE IF RatGe(reliability, 80) /\ maintenanceCount <= 2
    THEN "Good tenant with mostly reliable payments and reasonable maintenance needs."
    ELSE IF RatGe(reliability, 70) /\ maintenanceCount <= 3
    THEN "Average tenant with some payment delays and moderate maintenance requests."
    ELSE "High-risk tenant with frequent payment issues and excessive maintenance requests."

\* mutant: AVERAGE stops short of three requests
categorizeTenantBehaviorStrict(reliability, maintenanceCount) ==
    IF RatGe(reliability, 90) /\ maintenanceCount <= 1 THEN "EXCELLENT"
    ELSE IF RatGe(reliability, 80) /\ maintenanceCount <= 2 THEN "GOOD"
    ELSE IF RatGe(reliability, 70) /\ maintenanceCount < 3 THEN "AVERAGE"
    ELSE "HIGH_RISK"

\* mutant: GOOD tolerates three requests
categorizeTenantBehaviorLoose(reliability, maintenanceCount) ==
    IF RatGe(reliability, 90) /\ maintenanceCount <= 1 THEN "EXCELLENT"
    ELSE IF RatGe(reliability, 80) /\ maintenanceCount <= 3 THEN "GOOD"
    ELSE IF RatGe(reliability, 70) /\ maintenanceCount <= 3 THEN "AVERAGE"
    ELSE "HIGH_RISK"

\* mutant: EXCELLENT starts at 80
categorizeTenantBehaviorLenient(reliability, maintenanceCount) ==
    IF RatGe(reliability, 80) /\ maintenanceCount <= 1 THEN "EXCELLENT"
    ELSE IF RatGe(reliability, 80) /\ maintenanceCount <= 2 THEN "GOOD"
    ELSE IF RatGe(reliability, 70) /\ maintenanceCount <= 3 THEN "AVERAGE"
    ELSE "HIGH_RISK"

categorizeTenantBehavior(reliability, maintenanceCount) ==
    IF RatGe(reliability, 90) /\ maintenanceCount <= 1 THEN "EXCELLENT"
    ELSE IF RatGe(reliability, 80) /\ maintenanceCount <= 2 THEN "GOOD"
    ELSE IF RatGe(reliability, 70) /\ maintenanceCount <= 3 THEN "AVERAGE"
    ELSE "HIGH_RISK"

\* new Date(payment.paidAt || payment.updatedAt); new Date(null) is the epoch
paidDate(payment) ==
    IF payment.paidAt # NoDate THEN payment.paidAt
    ELSE IF payment.updatedAt # NoDate THEN payment.updatedAt
    ELSE 0

\* mutant: the delay is rounded down and not floored at zero
paymentDelayFloor(payment) ==
    (paidDate(payment) - payment.dueDate) \div DayMs

\* Math.max(0, Math.ceil((paidDate - dueDate) / (1000 * 60 * 60 * 24)))
paymentDelay(payment) ==
    MathMax(0, MathCeil(paidDate(payment) - payment.dueDate, DayMs))

RECURSIVE totalDelay(_)
totalDelay(late) ==
    IF late = <<>> THEN 0
    ELSE paymentDelay(Head(late)) + totalDelay(Tail(late))

calculateAveragePaymentDelay(payments) ==
    LET late == SelectSeq(payments, IsLate)
    IN IF Len(late) = 0 THEN 0
       ELSE MathRound(Rat(totalDelay(late), Len(late)))

\* Array.prototype.join
RECURSIVE Join(_, _)
Join(parts, separator) ==
    IF parts = <<>> THEN ""
    ELSE IF Len(parts) = 1 THEN parts[1]
    ELSE parts[1] \o separator \o Join(Tail(parts), separator)

\* the clauses pushed onto summary, in order
summaryClauses(reliability, maintenanceCount, recentCount, averageDelay) ==
    <<IF RatGe(reliability, 90)
      THEN "Excellent payment history with 90%+ on-time payments"
      ELSE IF RatGe(reliability, 80)
      THEN "Good payment history with mostly reliable payments"
      ELSE IF RatGe(reliability, 70)
      THEN "Average payment history with some delays"
      ELSE "Poor payment history with frequent delays">>
    \o (IF averageDelay > 0
        THEN <<"Average payment delay of " \o ToString(averageDelay) \o " days">>
        ELSE <<>>)
    \o <<IF maintenanceCount = 0 THEN "No maintenance requests submitted"
         ELSE IF maintenanceCount <= 2 THEN "Minimal maintenance requests"
         ELSE IF maintenanceCount <= 5 THEN "Moderate maintenance requests"
         ELSE "Excessive maintenance requests">>
    \o (IF recentCount > 2
        THEN <<"Recent increase in maintenance requests">>
        ELSE <<>>)

\* mutant: the clauses are joined without the closing period
generateDetailedBehaviorSummaryNoPeriod(reliability, maintenanceCount, recentCount, averageDelay) ==
    Join(summaryClauses(reliability, maintenanceCount, recentCount, averageDelay), ". ")

\* summary.join(". ") + "."
generateDetailedBehaviorSummary(reliability, maintenanceCount, recentCount, averageDelay) ==
    Join(summaryClauses(reliability, maintenanceCount, recentCount, averageDelay), ". ")
    \o "."

calculatePaymentTrend(payments) ==
    IF Len(payments) < 3 THEN "INSUFFICIENT_DATA"
    ELSE LET recentOnTime == onTimePayments(SubSeq(payments, 1, 3))
             olderOnTime == onTimePayments(Take(SubSeq(payments, 4, Len(payments)), 3))
         IN IF recentOnTime > olderOnTime THEN "IMPROVING"
            ELSE IF recentOnTime < olderOnTime THEN "DECLINING"
            ELSE "STABLE"

\* mutant: the positive recommendations look at the reliability only
generateReportRecommendationsAnyCount(reliability, maintenanceCount, recentCount) ==
    (IF RatLt(reliability, 70)
     THEN <<"Implement stricter payment monitoring and reminders",
            "Consider requiring automatic payment setup">>
     ELSE <<>>)
    \o (IF maintenanceCount > 5
        THEN <<"Schedule regular property inspections",
               "Consider implementing maintenance request limits">>
        ELSE <<>>)
    \o (IF recentCount > 2
        THEN <<"Investigate recent increase in maintenance requests",
               "Consider tenant education on proper maintenance reporting">>
        ELSE <<>>)
    \o (IF RatGe(reliability, 90)
        THEN <<"Consider offering lease renewal incentives",
               "Nominate for tenant of the month program">>
        ELSE <<>>)

generateReportRecommendations(reliability, maintenanceCount, recentCount) ==
    (IF RatLt(reliability, 70)
     THEN <<"Implement stricter payment monitoring and reminders",
            "Consider requiring automatic payment setup">>
     ELSE <<>>)
    \o (IF maintenanceCount > 5
        THEN <<"Schedule regular property inspections",
               "Consider implementing maintenance request limits">>
        ELSE <<>>)
    \o (IF recentCount > 2
        THEN <<"Investigate recent increase in maintenance requests",
               "Consider tenant education on proper maintenance reporting">>
        ELSE <<>>)
    \o (IF RatGe(reliability, 90) /\ maintenanceCount <= 1
        THEN <<"Consider offering lease renewal incentives",
               "Nominate for tenant of the month program">>
        ELSE <<>>)

identifyRiskFactors(reliability, maintenanceCount, recentCount) ==
    (IF RatLt(reliability, 70) THEN <<"Poor payment history">> ELSE <<>>)
    \o (IF maintenanceCount > 5
        THEN <<"Excessive maintenance requests">> ELSE <<>>)
    \o (IF recentCount > 2
        THEN <<"Recent increase in maintenance requests">> ELSE <<>>)
    \o (IF RatLt(reliability, 50)
        THEN <<"Very poor payment reliability">> ELSE <<>>)

\* what a call that raises leaves behind
TypeError == [error |-> "TypeError"]

IsResolved(req) == req.status = "RESOLVED"

RECURSIVE totalResponseTime(_)
totalResponseTime(resolved) ==
    IF resolved = <<>> THEN 0
    ELSE MathCeil(Head(resolved).updatedAt - Head(resolved).createdAt, DayMs)
         + totalResponseTime(Tail(resolved))

calculateAverageMaintenanceResponseTime(requests) ==
    LET resolved == SelectSeq(requests, IsResolved)
    IN IF Len(resolved) = 0 THEN 0
       ELSE MathRound(Rat(totalResponseTime(resolved), Len(resolved)))

\* A description is <<>> when the field is null and <<words>> otherwise,
\* words being the keywords that description.toLowerCase() includes; no
\* keyword is part of another, so every set of keywords is some text.
PlumbingWords == {"plumb", "water", "toilet"}
ElectricalWords == {"electrical", "power", "outlet"}
HvacWords == {"hvac", "air", "heat"}
EmergencyWords == {"emergency", "urgent"}

\* mutant: the emergency keywords are looked for first
requestCategoryEmergencyFirst(req) ==
    LET words == req.description[1]
    IN IF words \cap EmergencyWords # {} THEN "emergency"
       ELSE IF words \cap PlumbingWords # {} THEN "plumbing"
       ELSE IF words \cap ElectricalWords # {} THEN "electrical"
       ELSE IF words \cap HvacWords # {} THEN "hvac"
       ELSE "general"

\* the branch of the forEach callback that counts the request
requestCategory(req) ==
    LET words == req.description[1]
    IN IF words \cap PlumbingWords # {} THEN "plumbing"
       ELSE IF words \cap ElectricalWords # {} THEN "electrical"
       ELSE IF words \cap HvacWords # {} THEN "hvac"
       ELSE IF words \cap EmergencyWords # {} THEN "emergency"
       ELSE "general"

\* req.description.toLowerCase() raises on a null description
categorizeMaintenanceRequests(requests) ==
    IF \E i \in DOMAIN requests : requests[i].description = <<>>
    THEN TypeError
    ELSE [category \in {"plumbing", "electrical", "hvac", "general", "emergency"} |->
            Cardinality({ i \in DOMAIN requests : requestCategory(requests[i]) = category })]

\* lease.endDate ? new Date(lease.endDate) : new Date()
RECURSIVE totalDuration(_, _)
totalDuration(leases, clock) ==
    IF leases = <<>> THEN 0
    ELSE LET lease == Head(leases)
             endDate == IF lease.endDate # NoDate THEN lease.endDate ELSE clock
         IN MathCeil(endDate - lease.startDate, DayMs)
            + totalDuration(Tail(leases), clock)

calculateAverageLeaseDuration(leases, clock) ==
    IF Len(leases) = 0 THEN 0
    ELSE MathRound(Rat(totalDuration(leases, clock), Len(leases)))

\* mutant: a lease counts as renewed as soon as its own unit is found
calculateRenewalRateSelf(leases) ==
    IF Len(leases) <= 1 THEN Rat(0, 1)
    ELSE LET renewedLeases ==
                 { i \in DOMAIN leases :
                     Cardinality({ j \in DOMAIN leases :
                                     leases[j].unitId = leases[i].unitId }) > 0 }
         IN Rat(Cardinality(renewedLeases) * 100, Len(leases))

calculateRenewalRate(leases) ==
    IF Len(leases) <= 1 THEN Rat(0, 1)
    ELSE LET renewedLeases ==
                 { i \in DOMAIN leases :
                     Cardinality({ j \in DOMAIN leases :
                                     leases[j].unitId = leases[i].unitId }) > 1 }
         IN Rat(Cardinality(renewedLeases) * 100, Len(leases))

\* Math.floor(Math.random() * 200) + 500
CreditScores == 500..699

\* the values mockScreeningData can take
MockScreeningData ==
    [creditScore : CreditScores, criminalBackground : BOOLEAN,
     evictionHistory : BOOLEAN, employmentVerification : BOOLEAN,
     incomeVerification : BOOLEAN]

generateScreeningSummary(data, level) ==
    Join(<<"Credit Score: " \o ToString(data.creditScore),
           "Criminal Background: "
               \o (IF data.criminalBackground THEN "Clean" ELSE "Issues Found"),
           "Eviction History: "
               \o (IF data.evictionHistory THEN "Clean" ELSE "Previous Evictions"),
           "Employment: "
               \o (IF data.employmentVerification THEN "Verified" ELSE "Not Verified"),
           "Income: "
               \o (IF data.incomeVerification THEN "Verified" ELSE "Not Verified"),
           "Overall Risk Level: " \o level>>, ". ")

\* mutant: a poor credit score adds a recommendation
generateScreeningRecommendationsCredit(data, level) ==
    IF level = "HIGH"
    THEN <<"Consider requiring additional security deposit",
           "Request co-signer or guarantor",
           "Implement stricter payment monitoring">>
    ELSE IF level = "MEDIUM"
    THEN <<"Monitor payment behavior closely",
           "Consider standard security deposit">>
         \o (IF data.creditScore < 600
             THEN <<"Request co-signer or guarantor">> ELSE <<>>)
    ELSE <<"Standard lease terms acceptable",
           "Consider offering lease renewal incentives">>

generateScreeningRecommendations(data, level) ==
    IF level = "HIGH"
    THEN <<"Consider requiring additional security deposit",
           "Request co-signer or guarantor",
           "Implement stricter payment monitoring">>
    ELSE IF level = "MEDIUM"
    THEN <<"Monitor payment behavior closely",
           "Consider standard security deposit">>
    ELSE <<"Standard lease terms acceptable",
           "Consider offering lease renewal incentives">>

\* mutant: the eviction penalty is the criminal one
screeningRiskScoreSwapped(data) ==
    (IF data.creditScore < 600 THEN 30
     ELSE IF data.creditScore < 650 THEN 15 ELSE 0)
    + (IF ~data.criminalBackground THEN 40 ELSE 0)
    + (IF ~data.evictionHistory THEN 40 ELSE 0)
    + (IF ~data.employmentVerification THEN 20 ELSE 0)
    + (IF ~data.incomeVerification THEN 15 ELSE 0)

\* performAutomatedScreening: riskScore after the five penalties
screeningRiskScore(data) ==
    (IF data.creditScore < 600 THEN 30
     ELSE IF data.creditScore < 650 THEN 15 ELSE 0)
    + (IF ~data.criminalBackground THEN 40 ELSE 0)
    + (IF ~data.evictionHistory THEN 35 ELSE 0)
    + (IF ~data.employmentVerification THEN 20 ELSE 0)
    + (IF ~data.incomeVerification THEN 15 ELSE 0)

\* performAutomatedScreening: riskLevel
screeningRiskLevel(riskScore) ==
    IF riskScore >= 50 THEN "HIGH"
    ELSE IF riskScore >= 25 THEN "MEDIUM" ELSE "LOW"

\* performAutomatedScreening for one draw of mockScreeningData
performAutomatedScreening(data) ==
    LET riskScore == screeningRiskScore(data)
        level == screeningRiskLevel(riskScore)
    IN [riskLevel |-> level,
        riskScore |-> riskScore,
        summary |-> generateScreeningSummary(data, level),
        status |-> "COMPLETED",
        recommendations |-> generateScreeningRecommendations(data, level),
        screeningData |-> data]

-----------------------------------------------------------------------------
(* The rows the handlers read *)

Payment(timing, st, due, paid, upd) ==
    [timingStatus |-> timing, status |-> st, dueDate |-> due,
     paidAt |-> paid, updatedAt |-> upd]

\* the dueDate of the i-th instalment of a lease
DueOf(i) == 10 + i * DayMs

\* one payment row of each kind, due at the i-th instalment
PaymentOfKind(kind, i) ==
    CASE kind = "ONTIME" -> Payment("ONTIME", "PAID", DueOf(i), DueOf(i), DueOf(i))
      [] kind = "ADVANCE" -> Payment("ADVANCE", "PAID", DueOf(i), DueOf(i) - 1, DueOf(i) - 1)
      [] kind = "LATE" -> Payment("LATE", "PAID", DueOf(i), DueOf(i) + 3, DueOf(i) + 3)
      [] OTHER -> Payment("NONE", "PENDING", DueOf(i), NoDate, DueOf(i) - 1)

\* the payments of a lease in the order they were created
BuildPayments(nOn, nAdv, nLate, nNone) ==
    [i \in 1..(nOn + nAdv + nLate + nNone) |->
        PaymentOfKind(IF i <= nOn THEN "ONTIME"
                      ELSE IF i <= nOn + nAdv THEN "ADVANCE"
                      ELSE IF i <= nOn + nAdv + nLate THEN "LATE"
                      ELSE "NONE", i)]

\* the text of the i-th request of a tenant
DescriptionOf(i) ==
    CASE i % 5 = 1 -> << {"water"} >>
      [] i % 5 = 2 -> << {} >>
      [] i % 5 = 3 -> << {"toilet", "urgent"} >>
      [] i % 5 = 4 -> << {"power"} >>
      [] OTHER -> << {"heat", "emergency"} >>

\* maintenance requests in the order they were created: the old ones, then
\* the ones created 30 days less one tick before Now0
BuildMaintenance(nOld, nRecent) ==
    [i \in 1..(nOld + nRecent) |->
        LET created == IF i <= nOld THEN thirtyDaysAgo(Now0) - (nOld - i)
                       ELSE thirtyDaysAgo(Now0) + 1
        IN [createdAt |-> created,
            updatedAt |-> created + (i % 3),
            status |-> IF i % 2 = 1 THEN "RESOLVED" ELSE "OPEN",
            description |-> DescriptionOf(i)]]

StoredAnalyses ==
    { <<>>,
      <<[aiRiskScore |-> 0, aiSummary |-> "", aiCategory |-> ""]>>,
      <<[aiRiskScore |-> 35, aiSummary |-> "stored summary", aiCategory |-> "GOOD"]>> }

Lease(st, unit, start, end, pays, analyses) ==
    [status |-> st, unitId |-> unit, startDate |-> start, endDate |-> end,
     payments |-> pays, TenantBehaviorAnalysis |-> analyses]

\* an earlier, expired lease of the same tenant with one payment
EarlierLease == Lease("EXPIRED", 2, 0, 9, BuildPayments(1, 0, 0, 0), <<>>)

LeaseInputs ==
    { <<>> }
    \cup { <<Lease(st, 1, 10, NoDate, BuildPayments(nOn, nAdv, nLate, nNone), an)>> \o more :
             st \in {"ACTIVE"}, nOn \in 0..MaxOnTime, nAdv \in 0..1,
             nLate \in 0..MaxLate, nNone \in 0..1, an \in StoredAnalyses,
             more \in { <<>>, <<EarlierLease>> } }

MaintenanceInputs ==
    { BuildMaintenance(2 * pairs, nRecent) :
        pairs \in 0..MaxOldPairs, nRecent \in 0..MaxRecent }

\* the stored tenant: an enabled one with any maintenance history, or a
\* disabled one that filed no request
TenantInputs ==
    [role : {"TENANT"}, isDisabled : {FALSE},
     Lease : LeaseInputs, maintenanceRequests : MaintenanceInputs]
    \cup [role : {"TENANT"}, isDisabled : {TRUE},
          Lease : LeaseInputs, maintenanceRequests : { <<>> }]

NoResp == [op |-> "none"]
NoLocals == [op |-> "none"]
NoArgs == [fn |-> "none"]

-----------------------------------------------------------------------------
(* The prisma queries of the handlers *)

IsActive(lease) == lease.status = "ACTIVE"

\* where: { role: "TENANT", Lease: { some: ... } }
Accessible(t) == t.role = "TENANT" /\ Len(t.Lease) > 0

\* mutant: the listing loads every payment and every request
landlordTenantsQueryAll(t) ==
    IF Accessible(t) /\ ~t.isDisabled
    THEN << [t EXCEPT
               !.Lease = [i \in DOMAIN t.Lease |->
                   [t.Lease[i] EXCEPT
                      !.payments = OrderByDesc(t.Lease[i].payments, "dueDate")]],
               !.maintenanceRequests =
                   OrderByDesc(t.maintenanceRequests, "createdAt")] >>
    ELSE <<>>

\* getLandlordTenants: payments take 5 by dueDate desc, requests take 3 by
\* createdAt desc, disabled tenants left out
landlordTenantsQuery(t) ==
    IF Accessible(t) /\ ~t.isDisabled
    THEN << [t EXCEPT
               !.Lease = [i \in DOMAIN t.Lease |->
                   [t.Lease[i] EXCEPT
                      !.payments = Take(OrderByDesc(t.Lease[i].payments, "dueDate"), 5)]],
               !.maintenanceRequests =
                   Take(OrderByDesc(t.maintenanceRequests, "createdAt"), 3)] >>
    ELSE <<>>

\* getTenantDetails and generateBehaviorReport: everything, ordered
tenantQuery(t) ==
    IF Accessible(t)
    THEN << [t EXCEPT
               !.Lease = [i \in DOMAIN t.Lease |->
                   [t.Lease[i] EXCEPT
                      !.payments = OrderByDesc(t.Lease[i].payments, "dueDate")]],
               !.maintenanceRequests =
                   OrderByDesc(t.maintenanceRequests, "createdAt")] >>
    ELSE <<>>

\* getTenantStats: everything, unordered, disabled tenants left out
tenantStatsQuery(t) == IF Accessible(t) /\ ~t.isDisabled THEN <<t>> ELSE <<>>

\* activeLease?.TenantBehaviorAnalysis?.[0], as a list of at most one row
behaviorAnalysisOf(t) ==
    LET active == SelectSeq(t.Lease, IsActive)
    IN IF active = <<>> THEN <<>> ELSE Take(active[1].TenantBehaviorAnalysis, 1)

\* behaviorAnalysis?.aiRiskScore || computed
OrNumber(analysis, computed) ==
    IF analysis # <<>> /\ analysis[1].aiRiskScore # 0
    THEN analysis[1].aiRiskScore ELSE computed

\* behaviorAnalysis?.aiSummary || computed
OrSummary(analysis, computed) ==
    IF analysis # <<>> /\ analysis[1].aiSummary # ""
    THEN analysis[1].aiSummary ELSE computed

\* behaviorAnalysis?.aiCategory || computed
OrCategory(analysis, computed) ==
    IF analysis # <<>> /\ analysis[1].aiCategory # ""
    THEN analysis[1].aiCategory ELSE computed

\* the constants computed at the top of each handler body
MetricsOf(handler, t, clock) ==
    LET allPayments == FlatMapPayments(t.Lease)
    IN [op |-> handler,
        totalPayments |-> Len(allPayments),
        onTimePayments |-> onTimePayments(allPayments),
        latePayments |-> latePayments(allPayments),
        advancePayments |-> advancePayments(allPayments),
        paymentReliability |-> paymentReliability(allPayments),
        maintenanceCount |-> Len(t.maintenanceRequests),
        recentMaintenanceCount |->
            recentMaintenanceCount(t.maintenanceRequests, clock),
        behaviorAnalysis |-> behaviorAnalysisOf(t),
        allPayments |-> allPayments,
        maintenanceRequests |-> t.maintenanceRequests,
        Lease |-> t.Lease,
        now |-> clock]

\* mutant: the tier and the narrative are decided on the rounded reliability
formatTenantRounded(m) ==
    [riskLevel |-> riskLevel(Rat(MathRound(m.paymentReliability), 1), m.maintenanceCount,
                             m.recentMaintenanceCount),
     paymentReliability |-> MathRound(m.paymentReliability),
     totalPayments |-> m.totalPayments,
     onTimePayments |-> m.onTimePayments,
     maintenanceRequestsCount |-> m.maintenanceCount,
     recentMaintenanceCount |-> m.recentMaintenanceCount,
     hasFrequentComplaints |-> m.recentMaintenanceCount > 2,
     aiRiskScore |-> OrNumber(m.behaviorAnalysis,
                              MathRound(HundredMinus(m.paymentReliability))),
     aiSummary |-> OrSummary(m.behaviorAnalysis,
                     generateBehaviorSummary(Rat(MathRound(m.paymentReliability), 1),
                         m.maintenanceCount, m.recentMaintenanceCount))]

\* getLandlordTenants: one element of formattedTenants
formatTenant(m) ==
    [riskLevel |-> riskLevel(m.paymentReliability, m.maintenanceCount,
                             m.recentMaintenanceCount),
     paymentReliability |-> MathRound(m.paymentReliability),
     totalPayments |-> m.totalPayments,
     onTimePayments |-> m.onTimePayments,
     maintenanceRequestsCount |-> m.maintenanceCount,
     recentMaintenanceCount |-> m.recentMaintenanceCount,
     hasFrequentComplaints |-> m.recentMaintenanceCount > 2,
     aiRiskScore |-> OrNumber(m.behaviorAnalysis,
                              MathRound(HundredMinus(m.paymentReliability))),
     aiSummary |-> OrSummary(m.behaviorAnalysis,
                     generateBehaviorSummary(m.paymentReliability,
                         m.maintenanceCount, m.recentMaintenanceCount))]

\* getTenantDetails: behaviorAnalysis of the response
tenantDetails(m) ==
    LET averagePaymentDelay == calculateAveragePaymentDelay(m.allPayments)
    IN [overallRiskLevel |-> overallRiskLevel(m.paymentReliability, m.maintenanceCount),
        paymentRiskLevel |-> paymentRiskLevel(m.paymentReliability),
        maintenanceRiskLevel |-> maintenanceRiskLevel(m.maintenanceCount),
        paymentReliability |-> MathRound(m.paymentReliability),
        totalPayments |-> m.totalPayments,
        onTimePayments |-> m.onTimePayments,
        latePayments |-> m.latePayments,
        advancePayments |-> m.advancePayments,
        averagePaymentDelay |-> averagePaymentDelay,
        maintenanceRequestsCount |-> m.maintenanceCount,
        recentMaintenanceCount |-> m.recentMaintenanceCount,
        hasFrequentComplaints |-> m.recentMaintenanceCount > 2,
        aiRiskScore |-> OrNumber(m.behaviorAnalysis,
                                 MathRound(HundredMinus(m.paymentReliability))),
        aiSummary |-> OrSummary(m.behaviorAnalysis,
                        generateDetailedBehaviorSummary(m.paymentReliability,
                            m.maintenanceCount, m.recentMaintenanceCount,
                            averagePaymentDelay)),
        aiCategory |-> OrCategory(m.behaviorAnalysis,
                         categorizeTenantBehavior(m.paymentReliability,
                                                  m.maintenanceCount))]

generateComprehensiveBehaviorReport(m) ==
    IF categorizeMaintenanceRequests(m.maintenanceRequests) = TypeError
    THEN TypeError
    ELSE
    [summary |->
        [overallRiskLevel |-> reportOverallRiskLevel(m.paymentReliability,
                                                     m.maintenanceCount),
         paymentReliability |-> MathRound(m.paymentReliability),
         maintenanceRequestsCount |-> m.maintenanceCount,
         recentMaintenanceCount |-> m.recentMaintenanceCount,
         averagePaymentDelay |-> calculateAveragePaymentDelay(m.allPayments)],
     paymentBehavior |->
        [totalPayments |-> m.totalPayments,
         onTimePayments |-> m.onTimePayments,
         latePayments |-> m.latePayments,
         advancePayments |-> m.advancePayments,
         reliability |-> MathRound(m.paymentReliability),
         trend |-> calculatePaymentTrend(m.allPayments)],
     maintenanceBehavior |->
        [totalRequests |-> m.maintenanceCount,
         recentRequests |-> m.recentMaintenanceCount,
         averageResponseTime |->
             calculateAverageMaintenanceResponseTime(m.maintenanceRequests),
         requestTypes |-> categorizeMaintenanceRequests(m.maintenanceRequests)],
     leaseHistory |->
        [totalLeases |-> Len(m.Lease),
         activeLeases |-> Len(SelectSeq(m.Lease, IsActive)),
         averageLeaseDuration |-> calculateAverageLeaseDuration(m.Lease, m.now),
         renewalRate |-> calculateRenewalRate(m.Lease)],
     generatedAt |-> m.now,
     recommendations |-> generateReportRecommendations(m.paymentReliability,
                             m.maintenanceCount, m.recentMaintenanceCount),
     riskFactors |-> identifyRiskFactors(m.paymentReliability,
                         m.maintenanceCount, m.recentMaintenanceCount)]

\* getTenantStats: riskDistribution and performance for the tenants found
tenantStats(m) ==
    LET level == statsRiskLevel(m.paymentReliability, m.maintenanceCount)
    IN [overallPaymentReliability |-> MathRound(m.paymentReliability),
        totalMaintenanceRequests |-> m.maintenanceCount,
        riskLevels |-> <<level>>,
        high |-> IF level = "HIGH" THEN 1 ELSE 0,
        medium |-> IF level = "MEDIUM" THEN 1 ELSE 0,
        low |-> IF level = "LOW" THEN 1 ELSE 0,
        averagePaymentDelay |-> calculateAveragePaymentDelay(m.allPayments)]

noTenantStats ==
    [overallPaymentReliability |-> 0, totalMaintenanceRequests |-> 0,
     riskLevels |-> <<>>, high |-> 0, medium |-> 0, low |-> 0,
     averagePaymentDelay |-> 0]

-----------------------------------------------------------------------------
(* The handlers.  user is req.user?.id: "none" when the request carries no  *)
(* authenticated user, "landlord" for the owner of the tenant's units.      *)

Users == {"none", "landlord"}

Respond(handler, code, rows) == [op |-> handler, status |-> code, body |-> rows]

GetLandlordTenants(user) ==
    LET found == landlordTenantsQuery(tenant)
    IN /\ IF user = "none"
          THEN /\ resp' = Respond("getLandlordTenants", 401, <<>>)
               /\ locals' = NoLocals
          ELSE IF found = <<>>
          THEN /\ resp' = Respond("getLandlordTenants", 200, <<>>)
               /\ locals' = NoLocals
          ELSE LET m == MetricsOf("getLandlordTenants", found[1], now)
               IN /\ resp' = Respond("getLandlordTenants", 200, <<formatTenant(m)>>)
                  /\ locals' = m
       /\ UNCHANGED <<tenant, now, args, db, calls>>

GetTenantDetails(user) ==
    LET found == tenantQuery(tenant)
    IN /\ IF user = "none"
          THEN /\ resp' = Respond("getTenantDetails", 401, <<>>)
               /\ locals' = NoLocals
          ELSE IF found = <<>>
          THEN /\ resp' = Respond("getTenantDetails", 404, <<>>)
               /\ locals' = NoLocals
          ELSE LET m == MetricsOf("getTenantDetails", found[1], now)
               IN /\ resp' = Respond("getTenantDetails", 200, <<tenantDetails(m)>>)
                  /\ locals' = m
       /\ UNCHANGED <<tenant, now, args, db, calls>>

GenerateBehaviorReport(user) ==
    LET found == tenantQuery(tenant)
    IN /\ IF user = "none"
          THEN /\ resp' = Respond("generateBehaviorReport", 401, <<>>)
               /\ locals' = NoLocals
          ELSE IF found = <<>>
          THEN /\ resp' = Respond("generateBehaviorReport", 404, <<>>)
               /\ locals' = NoLocals
          ELSE LET m == MetricsOf("generateBehaviorReport", found[1], now)
                   report == generateComprehensiveBehaviorReport(m)
               IN IF report = TypeError
                  THEN \* catch (error): 500
                       /\ resp' = Respond("generateBehaviorReport", 500, <<>>)
                       /\ locals' = NoLocals
                  ELSE /\ resp' = Respond("generateBehaviorReport", 200, <<report>>)
                       /\ locals' = m
       /\ UNCHANGED <<tenant, now, args, db, calls>>

GetTenantStats(user) ==
    LET found == tenantStatsQuery(tenant)
    IN /\ IF user = "none"
          THEN /\ resp' = Respond("getTenantStats", 401, <<>>)
               /\ locals' = NoLocals
          ELSE IF found = <<>>
          THEN /\ resp' = Respond("getTenantStats", 200, <<noTenantStats>>)
               /\ locals' = NoLocals
          ELSE LET m == MetricsOf("getTenantStats", found[1], now)
               IN /\ resp' = Respond("getTenantStats", 200, <<tenantStats(m)>>)
                  /\ locals' = m
       /\ UNCHANGED <<tenant, now, args, db, calls>>

\* the wall clock advances between requests
Tick ==
    /\ now < Now0 + MaxTicks
    /\ now' = now + 1
    /\ UNCHANGED <<tenant, locals, resp, args, db, calls>>

Init ==
    /\ tenant \in TenantInputs
    /\ now = Now0
    /\ locals = NoLocals
    /\ resp = NoResp
    /\ args = NoArgs
    /\ db = [table |-> "none"]
    /\ calls = <<>>

Next ==
    \/ \E user \in Users : GetLandlordTenants(user)
    \/ \E user \in Users : GetTenantDetails(user)
    \/ \E user \in Users : GenerateBehaviorReport(user)
    \/ \E user \in Users : GetTenantStats(user)
    \/ Tick

Spec == Init /\ [][Next]_vars

-----------------------------------------------------------------------------
(* The behaviour report of tenants with one or two leases *)

\* the payments of a lease, created in the order of kinds, the i-th one due
\* at instalment offset + i
RowsOf(kinds, offset) ==
    [i \in DOMAIN kinds |-> PaymentOfKind(kinds[i], offset + i)]

\* the lease the tenant holds now; its instalments follow the earlier ones
LaterLeases ==
    { Lease("ACTIVE", 1, DueOf(2 * MaxTrendLen), NoDate,
            RowsOf(kinds, 2 * MaxTrendLen), <<>>) :
        kinds \in SeqsUpTo({"ONTIME", "LATE"}, MaxTrendLen) }

\* a lease of the same tenant that ended before the later one began
EarlierLeases ==
    { Lease("EXPIRED", 2, DueOf(0), DueOf(2 * MaxTrendLen) - 1,
            RowsOf(kinds, 0), <<>>) :
        kinds \in SeqsUpTo({"ADVANCE", "LATE"}, MaxTrendLen) \ { <<>> } }

\* include: { Lease: ... } has no orderBy: the leases come in either order
ReportLeases ==
    { <<later>> : later \in LaterLeases }
    \cup { <<later, earlier>> : later \in LaterLeases, earlier \in EarlierLeases }
    \cup { <<earlier, later>> : later \in LaterLeases, earlier \in EarlierLeases }

ReportTenants ==
    [role : {"TENANT"}, isDisabled : {FALSE},
     Lease : ReportLeases, maintenanceRequests : { <<>> }]

InitReport ==
    /\ tenant \in ReportTenants
    /\ now = Now0
    /\ locals = NoLocals
    /\ resp = NoResp
    /\ args = NoArgs
    /\ db = [table |-> "none"]
    /\ calls = <<>>

NextReport == \E user \in Users : GenerateBehaviorReport(user)

SpecReport == InitReport /\ [][NextReport]_vars

-----------------------------------------------------------------------------
(* The helpers on their own: a call is drawn, then evaluated *)

Reliabilities == { Rat(k, RelDen) : k \in 0..(100 * RelDen) }

\* the arguments every helper call leaves unused
NoCall ==
    [fn |-> "none", reliability |-> Rat(0, 1), maintenanceCount |-> 0,
     recentMaintenanceCount |-> 0, averageDelay |-> 0, payments |-> <<>>,
     requests |-> <<>>, leases |-> <<>>]

ScoreArgs ==
    { [NoCall EXCEPT !.fn = "score", !.reliability = r, !.maintenanceCount = c,
                     !.recentMaintenanceCount = rc] :
        r \in Reliabilities, c \in 0..MaxCount, rc \in 0..MaxRecentArg }

\* payment rows due at tick 10, paid before, on or after it, or not at all
DelayPayments ==
    { Payment(timing, "PAID", 10, paid, upd) :
        timing \in {"LATE", "ONTIME"}, paid \in {NoDate, 8, 9, 10, 11, 13},
        upd \in {NoDate, 12, 14} }

DelayArgs ==
    { [NoCall EXCEPT !.fn = "delay", !.payments = ps] :
        ps \in SeqsUpTo(DelayPayments, MaxDelayLen) }

\* calls of generateDetailedBehaviorSummary; averageDelay is a whole number
\* of days (the result of calculateAveragePaymentDelay over one payment)
DetailArgs ==
    { [NoCall EXCEPT !.fn = "detail", !.reliability = Rat(k, 1),
                     !.maintenanceCount = c, !.recentMaintenanceCount = rc,
                     !.averageDelay = d] :
        k \in {0, 69, 70, 79, 80, 89, 90, 100}, c \in 0..MaxCount,
        rc \in 0..MaxRecentArg, d \in 0..MaxDelayArg }

\* maintenance request rows; description is null, or the words of the text
RequestRows ==
    { [createdAt |-> 100, updatedAt |-> 103, status |-> "RESOLVED",
       description |-> d] :
        d \in { <<>>, <<{}>>, <<{"water"}>>, <<{"urgent"}>>,
                <<{"water", "urgent"}>>, <<{"power"}>>, <<{"air"}>> } }

RequestArgs ==
    { [NoCall EXCEPT !.fn = "requests", !.requests = rs] :
        rs \in SeqsUpTo(RequestRows, MaxRequestLen) }

\* lease rows with and without an endDate
LeaseRows ==
    { Lease(st, 1, start, end, <<>>, <<>>) :
        st \in {"ACTIVE", "EXPIRED"}, start \in {Now0 - 60 * DayMs, Now0 - 7 * DayMs},
        end \in {NoDate, Now0 - DayMs, Now0 + 30 * DayMs} }

LeaseArgs ==
    { [NoCall EXCEPT !.fn = "leases", !.leases = ls] :
        ls \in SeqsUpTo(LeaseRows, MaxLeaseLen) }

\* lease rows spread over a few units
RenewalArgs ==
    { [NoCall EXCEPT !.fn = "renewal",
                     !.leases = [i \in DOMAIN units |->
                                    Lease("EXPIRED", units[i], i * 10, i * 10 + 9,
                                          <<>>, <<>>)]] :
        units \in SeqsUpTo(1..MaxUnits, MaxRenewalLen) }

ScreeningArgs == { [NoCall EXCEPT !.fn = "screening"] }

\* the constants of a handler body for totalPayments = 100 * RelDen payments
\* of which args.reliability.n are on time
CallMetrics ==
    [op |-> "call",
     totalPayments |-> 100 * RelDen,
     onTimePayments |-> args.reliability.n,
     latePayments |-> 100 * RelDen - args.reliability.n,
     advancePayments |-> 0,
     paymentReliability |-> args.reliability,
     maintenanceCount |-> args.maintenanceCount,
     recentMaintenanceCount |-> args.recentMaintenanceCount,
     behaviorAnalysis |-> <<>>,
     allPayments |-> args.payments,
     maintenanceRequests |-> <<>>,
     Lease |-> <<>>,
     now |-> now]

Return(helper, v) == [op |-> helper, value |-> v]

EvalRiskLevel ==
    /\ args.fn = "score"
    /\ resp' = Return("riskLevel",
                      riskLevel(args.reliability, args.maintenanceCount,
                                args.recentMaintenanceCount))
    /\ UNCHANGED <<tenant, now, locals, args, db, calls>>

EvalCategorizeTenantBehavior ==
    /\ args.fn = "score"
    /\ resp' = Return("categorizeTenantBehavior",
                      categorizeTenantBehavior(args.reliability, args.maintenanceCount))
    /\ UNCHANGED <<tenant, now, locals, args, db, calls>>

EvalGenerateBehaviorSummary ==
    /\ args.fn = "score"
    /\ resp' = Return("generateBehaviorSummary",
                      generateBehaviorSummary(args.reliability, args.maintenanceCount,
                                              args.recentMaintenanceCount))
    /\ UNCHANGED <<tenant, now, locals, args, db, calls>>

EvalCalculateAveragePaymentDelay ==
    /\ args.fn = "delay"
    /\ resp' = Return("calculateAveragePaymentDelay",
                      calculateAveragePaymentDelay(args.payments))
    /\ UNCHANGED <<tenant, now, locals, args, db, calls>>

EvalGenerateDetailedBehaviorSummary ==
    /\ args.fn = "detail"
    /\ resp' = Return("generateDetailedBehaviorSummary",
                      generateDetailedBehaviorSummary(args.reliability,
                          args.maintenanceCount, args.recentMaintenanceCount,
                          args.averageDelay))
    /\ UNCHANGED <<tenant, now, locals, args, db, calls>>

EvalFormatTenant ==
    /\ args.fn = "score"
    /\ resp' = Return("formatTenant", formatTenant(CallMetrics))
    /\ UNCHANGED <<tenant, now, locals, args, db, calls>>

EvalTenantDetails ==
    /\ args.fn = "score"
    /\ resp' = Return("tenantDetails", tenantDetails(CallMetrics))
    /\ UNCHANGED <<tenant, now, locals, args, db, calls>>

EvalCategorizeMaintenanceRequests ==
    /\ args.fn = "requests"
    /\ resp' = Return("categorizeMaintenanceRequests",
                      categorizeMaintenanceRequests(args.requests))
    /\ UNCHANGED <<tenant, now, locals, args, db, calls>>

EvalCalculateAverageLeaseDuration ==
    /\ args.fn = "leases"
    /\ resp' = Return("calculateAverageLeaseDuration",
                      calculateAverageLeaseDuration(args.leases, now))
    /\ UNCHANGED <<tenant, now, locals, args, db, calls>>

EvalCalculateRenewalRate ==
    /\ args.fn = "renewal"
    /\ resp' = Return("calculateRenewalRate", calculateRenewalRate(args.leases))
    /\ UNCHANGED <<tenant, now, locals, args, db, calls>>

\* mockScreeningData is drawn by Math.random inside the call
EvalPerformAutomatedScreening ==
    /\ args.fn = "screening"
    /\ \E data \in MockScreeningData :
           resp' = Return("performAutomatedScreening",
                          performAutomatedScreening(data))
    /\ UNCHANGED <<tenant, now, locals, args, db, calls>>

NoTenant ==
    [role |-> "TENANT", isDisabled |-> FALSE, Lease |-> <<>>,
     maintenanceRequests |-> <<>>]

InitScore ==
    /\ args \in ScoreArgs \cup DelayArgs \cup DetailArgs \cup RequestArgs
                 \cup LeaseArgs \cup RenewalArgs \cup ScreeningArgs
    /\ resp = NoResp
    /\ tenant = NoTenant
    /\ now = Now0
    /\ locals = NoLocals
    /\ db = [table |-> "none"]
    /\ calls = <<>>

NextScore ==
    \/ EvalRiskLevel
    \/ EvalCategorizeTenantBehavior
    \/ EvalGenerateBehaviorSummary
    \/ EvalCalculateAveragePaymentDelay
    \/ EvalGenerateDetailedBehaviorSummary
    \/ EvalFormatTenant
    \/ EvalTenantDetails
    \/ EvalCategorizeMaintenanceRequests
    \/ EvalCalculateAverageLeaseDuration
    \/ EvalCalculateRenewalRate
    \/ EvalPerformAutomatedScreening

SpecScore == InitScore /\ [][NextScore]_vars

-----------------------------------------------------------------------------
(* Properties *)

\* the classifyRisk rule as the specification words it, on a reliability
\* given as a fraction
ClassifyRiskRule(rel, maintenanceTotal, recent30d) ==
    IF rel.n < 70 * rel.d \/ maintenanceTotal > 5 \/ recent30d > 2 THEN "HIGH"
    ELSE IF rel.n < 85 * rel.d \/ maintenanceTotal > 2 \/ recent30d > 1 THEN "MEDIUM"
    ELSE "LOW"

Rank(tier) == CASE tier = "HIGH" -> 2 [] tier = "MEDIUM" -> 1 [] OTHER -> 0

Answered == resp.op # "none" /\ resp.status = 200 /\ locals.op = resp.op

\* the overall tier of the last response of a handler that reports one
ReportedTier ==
    CASE resp.op = "getLandlordTenants" -> resp.body[1].riskLevel
      [] resp.op = "getTenantDetails" -> resp.body[1].overallRiskLevel
      [] resp.op = "generateBehaviorReport" -> resp.body[1].summary.overallRiskLevel
      [] OTHER -> resp.body[1].riskLevels[1]

(* C1: for every reliability in 0..100 and every maintenanceTotal and     *)
(* recent30d the tier is HIGH if reliability < 70 or maintenanceTotal > 5  *)
(* or recent30d > 2, else MEDIUM if reliability < 85 or maintenanceTotal   *)
(* > 2 or recent30d > 1, else LOW; reliability exactly 70 with one request *)
(* and none recent is MEDIUM.                                              *)
C1_RiskTierRule ==
    (args.fn = "score" /\ resp.op = "riskLevel") =>
        /\ resp.value = ClassifyRiskRule(args.reliability, args.maintenanceCount,
                                         args.recentMaintenanceCount)
        /\ (/\ args.reliability.n = 70 * args.reliability.d
            /\ args.maintenanceCount = 1
            /\ args.recentMaintenanceCount = 0) => resp.value = "MEDIUM"

C1_Witness ==
    /\ resp.op = "riskLevel"
    /\ args.reliability.n = 70 * args.reliability.d
    /\ args.maintenanceCount = 1
    /\ args.recentMaintenanceCount = 0
    /\ resp.value = "MEDIUM"

(* C2: riskLevel of getLandlordTenants, overallRiskLevel of               *)
(* getTenantDetails and summary.overallRiskLevel of the report are each    *)
(* the tier the classifyRisk rule gives for the handler's reliability,     *)
(* maintenance count and recent count.                                     *)
C2_SameTierEverywhere ==
    (Answered /\ resp.op \in {"getLandlordTenants", "getTenantDetails",
                              "generateBehaviorReport"}) =>
        ReportedTier = ClassifyRiskRule(locals.paymentReliability,
                                        locals.maintenanceCount,
                                        locals.recentMaintenanceCount)

(* C3: the payment reliability a handler computes lies in 0..100 and is 0  *)
(* when the tenant has no payment records.                                 *)
C3_ReliabilityRange ==
    locals.op # "none" =>
        /\ locals.paymentReliability.d > 0
        /\ 0 <= locals.paymentReliability.n
        /\ locals.paymentReliability.n <= 100 * locals.paymentReliability.d
        /\ locals.allPayments = <<>> => locals.paymentReliability.n = 0

C3_Witness ==
    /\ locals.op = "generateBehaviorReport"
    /\ locals.allPayments = <<>>
    /\ locals.paymentReliability.n = 0

\* the payment rows of the stored tenant, as (lease, position) pairs
StoredPayments ==
    { ij \in (DOMAIN tenant.Lease) \X (1..(MaxOnTime + MaxLate + 8)) :
        ij[2] <= Len(tenant.Lease[ij[1]].payments) }

StoredWithTiming(kinds) ==
    { ij \in StoredPayments :
        tenant.Lease[ij[1]].payments[ij[2]].timingStatus \in kinds }

(* C4: reliability is onTime / total * 100 where total counts every stored *)
(* payment of the tenant whatever its status, onTime the ONTIME and        *)
(* ADVANCE ones, late the LATE ones and advance the ADVANCE ones; so       *)
(* onTime + late <= total and advance <= onTime.                           *)
C4_ReliabilityCounts ==
    locals.op \in {"getTenantDetails", "generateBehaviorReport", "getTenantStats"} =>
        /\ locals.totalPayments = Cardinality(StoredPayments)
        /\ locals.onTimePayments = Cardinality(StoredWithTiming({"ONTIME", "ADVANCE"}))
        /\ locals.latePayments = Cardinality(StoredWithTiming({"LATE"}))
        /\ locals.advancePayments = Cardinality(StoredWithTiming({"ADVANCE"}))
        /\ locals.paymentReliability.n * locals.totalPayments
              = locals.onTimePayments * 100 * locals.paymentReliability.d
        /\ locals.onTimePayments + locals.latePayments <= locals.totalPayments
        /\ locals.advancePayments <= locals.onTimePayments
        /\ (resp.op = "getTenantDetails" /\ Answered) =>
              /\ resp.body[1].totalPayments = locals.totalPayments
              /\ resp.body[1].onTimePayments = locals.onTimePayments
              /\ resp.body[1].latePayments = locals.latePayments
              /\ resp.body[1].advancePayments = locals.advancePayments

C4_Witness ==
    /\ Answered
    /\ resp.op = "getTenantDetails"
    /\ \E ij \in StoredPayments :
          tenant.Lease[ij[1]].payments[ij[2]].status = "PENDING"
    /\ resp.body[1].advancePayments = 1
    /\ resp.body[1].latePayments = 1
    /\ resp.body[1].totalPayments
          > resp.body[1].onTimePayments + resp.body[1].latePayments

\* the calls that differ from the current one in one argument, for the worse
AdverseCalls ==
    { w \in ScoreArgs :
        \/ /\ w.reliability.n < args.reliability.n
           /\ w.maintenanceCount = args.maintenanceCount
           /\ w.recentMaintenanceCount = args.recentMaintenanceCount
        \/ /\ w.reliability = args.reliability
           /\ w.maintenanceCount > args.maintenanceCount
           /\ w.recentMaintenanceCount = args.recentMaintenanceCount
        \/ /\ w.reliability = args.reliability
           /\ w.maintenanceCount = args.maintenanceCount
           /\ w.recentMaintenanceCount > args.recentMaintenanceCount }

(* C5: with the other two arguments fixed, a lower reliability, a larger   *)
(* maintenance count or a larger recent count never gives a lower tier.    *)
C5_RiskMonotonic ==
    (args.fn = "score" /\ resp.op = "riskLevel") =>
        \A w \in AdverseCalls :
            Rank(riskLevel(w.reliability, w.maintenanceCount,
                           w.recentMaintenanceCount)) >= Rank(resp.value)

C5_Witness ==
    /\ args.fn = "score"
    /\ resp.op = "riskLevel"
    /\ resp.value = "MEDIUM"
    /\ args.recentMaintenanceCount = 2
    /\ \E w \in AdverseCalls :
          riskLevel(w.reliability, w.maintenanceCount,
                    w.recentMaintenanceCount) = "HIGH"

(* C6: a tenant with no payments and no maintenance requests has          *)
(* reliability 0, maintenance count 0, recent count 0 and tier HIGH in     *)
(* every handler that computes a tier.                                     *)
C6_NoHistoryIsHigh ==
    (Answered /\ locals.allPayments = <<>> /\ locals.maintenanceCount = 0) =>
        /\ locals.paymentReliability.n = 0
        /\ locals.recentMaintenanceCount = 0
        /\ ReportedTier = "HIGH"

C6_Witness ==
    /\ Answered
    /\ resp.op = "getTenantStats"
    /\ locals.allPayments = <<>>
    /\ locals.maintenanceCount = 0
    /\ resp.body[1].riskLevels = <<"HIGH">>
    /\ resp.body[1].high = 1

\* the category as the specification words it
CategoryRule(rel, maintenanceTotal) ==
    CASE rel.n >= 90 * rel.d /\ maintenanceTotal <= 1 -> "EXCELLENT"
      [] ~(rel.n >= 90 * rel.d /\ maintenanceTotal <= 1)
         /\ rel.n >= 80 * rel.d /\ maintenanceTotal <= 2 -> "GOOD"
      [] ~(rel.n >= 80 * rel.d /\ maintenanceTotal <= 2)
         /\ rel.n >= 70 * rel.d /\ maintenanceTotal <= 3 -> "AVERAGE"
      [] OTHER -> "HIGH_RISK"

(* C7: categorizeTenantBehavior is EXCELLENT when reliability >= 90 and    *)
(* maintenanceTotal <= 1, else GOOD when >= 80 and <= 2, else AVERAGE when *)
(* >= 70 and <= 3, else HIGH_RISK.                                         *)
C7_CategoryRule ==
    (args.fn = "score" /\ resp.op = "categorizeTenantBehavior") =>
        resp.value = CategoryRule(args.reliability, args.maintenanceCount)

C7_Witness ==
    /\ resp.op = "categorizeTenantBehavior"
    /\ args.reliability.n = 70 * args.reliability.d
    /\ args.maintenanceCount = 3
    /\ resp.value = "AVERAGE"

(* C8: for reliability 82, three maintenance requests and at most one      *)
(* recent one the tier is MEDIUM while the category is AVERAGE.            *)
C8_TierAndCategoryDiffer ==
    (/\ args.fn = "score"
     /\ args.reliability.n = 82 * args.reliability.d
     /\ args.maintenanceCount = 3
     /\ args.recentMaintenanceCount <= 1) =>
        /\ resp.op = "riskLevel" => resp.value = "MEDIUM"
        /\ resp.op = "categorizeTenantBehavior" => resp.value = "AVERAGE"

C8_Witness ==
    /\ args.fn = "score"
    /\ args.reliability.n = 82 * args.reliability.d
    /\ args.maintenanceCount = 3
    /\ args.recentMaintenanceCount = 1
    /\ resp.op = "categorizeTenantBehavior"
    /\ resp.value = "AVERAGE"
    /\ riskLevel(args.reliability, args.maintenanceCount,
                 args.recentMaintenanceCount) = "MEDIUM"

GoodNarrative ==
    "Good tenant with mostly reliable payments and reasonable maintenance needs."
AverageNarrative ==
    "Average tenant with some payment delays and moderate maintenance requests."
HighRiskNarrative ==
    "High-risk tenant with frequent payment issues and excessive maintenance requests."

\* the narrative was computed, not read from a stored analysis
SummaryComputed(m) ==
    m.behaviorAnalysis = <<>> \/ m.behaviorAnalysis[1].aiSummary = ""

(* C9, as claimed: at the current clock some tenant is listed by          *)
(* getLandlordTenants with riskLevel HIGH together with the computed       *)
(* "Good tenant" narrative.                                                *)
C9_HighWithGoodNarrative ==
    \E t \in TenantInputs :
        /\ landlordTenantsQuery(t) # <<>>
        /\ LET m == MetricsOf("getLandlordTenants", landlordTenantsQuery(t)[1], now)
           IN /\ SummaryComputed(m)
              /\ formatTenant(m).riskLevel = "HIGH"
              /\ formatTenant(m).aiSummary = GoodNarrative

(* C9, amended: tier and narrative can disagree, but a tenant listed with  *)
(* riskLevel HIGH never carries the computed "Good tenant" narrative: its  *)
(* computed narrative is the "Average tenant" or the "High-risk tenant"    *)
(* one.                                                                    *)
C9_HighNeverGood ==
    (/\ Answered
     /\ resp.op = "getLandlordTenants"
     /\ SummaryComputed(locals)
     /\ resp.body[1].riskLevel = "HIGH") =>
        resp.body[1].aiSummary \in {AverageNarrative, HighRiskNarrative}

C9_Witness ==
    /\ Answered
    /\ resp.op = "getLandlordTenants"
    /\ SummaryComputed(locals)
    /\ resp.body[1].riskLevel = "HIGH"
    /\ resp.body[1].aiSummary = AverageNarrative

LatePositions ==
    { i \in DOMAIN args.payments : args.payments[i].timingStatus = "LATE" }

\* days from dueDate to paidAt, or to updatedAt without a paidAt, rounded
\* up to whole days and never below zero
DelayDays(payment) ==
    LET paid == IF payment.paidAt = NoDate THEN payment.updatedAt ELSE payment.paidAt
        diff == paid - payment.dueDate
    IN CHOOSE days \in 0..(Now0 + DayMs) :
          /\ days * DayMs >= diff
          /\ days = 0 \/ (days - 1) * DayMs < diff

RECURSIVE SumDelayDays(_)
SumDelayDays(positions) ==
    IF positions = {} THEN 0
    ELSE LET i == CHOOSE j \in positions : TRUE
         IN DelayDays(args.payments[i]) + SumDelayDays(positions \ {i})

(* C10: calculateAveragePaymentDelay looks at the LATE payments only; each *)
(* contributes max(0, ceil(days from dueDate to paidAt, or to updatedAt    *)
(* without a paidAt)); the result is the mean of the contributions rounded *)
(* to the nearest integer, 0 without LATE payments, never negative.        *)
C10_AverageDelay ==
    (args.fn = "delay" /\ resp.op = "calculateAveragePaymentDelay") =>
        /\ resp.value \in Nat
        /\ LatePositions = {} => resp.value = 0
        /\ LatePositions # {} =>
              LET count == Cardinality(LatePositions)
                  sum == SumDelayDays(LatePositions)
              IN /\ 2 * count * resp.value - count <= 2 * sum
                 /\ 2 * sum < 2 * count * resp.value + count

C10_Witness ==
    /\ args.fn = "delay"
    /\ resp.op = "calculateAveragePaymentDelay"
    /\ Cardinality(LatePositions) = 2
    /\ Len(args.payments) = 2
    /\ \E i \in LatePositions : args.payments[i].paidAt = NoDate
    /\ \E i \in LatePositions : args.payments[i].paidAt = 11
    /\ SumDelayDays(LatePositions) = 3
    /\ resp.value = 2

-----------------------------------------------------------------------------
(* The report helpers on rows with missing fields *)

(* C12: a maintenance request with no description, a LATE payment with     *)
(* neither paidAt nor updatedAt and a lease with no endDate never make a   *)
(* helper raise: categorizeMaintenanceRequests returns its five counts,    *)
(* calculateAveragePaymentDelay and calculateAverageLeaseDuration return a *)
(* number.                                                                 *)
C12_NeverRaises ==
    /\ (args.fn = "requests" /\ resp.op = "categorizeMaintenanceRequests") =>
          /\ resp.value # TypeError
          /\ \A category \in DOMAIN resp.value : resp.value[category] \in Nat
    /\ (args.fn = "delay" /\ resp.op = "calculateAveragePaymentDelay") =>
          resp.value \in Nat
    /\ (args.fn = "leases" /\ resp.op = "calculateAverageLeaseDuration") =>
          resp.value \in Int

-----------------------------------------------------------------------------
(* The simulated screening *)

Screened == args.fn = "screening" /\ resp.op = "performAutomatedScreening"

\* the recommendations of each tier
TierRecommendations(level) ==
    CASE level = "HIGH" ->
            <<"Consider requiring additional security deposit",
              "Request co-signer or guarantor",
              "Implement stricter payment monitoring">>
      [] level = "MEDIUM" ->
            <<"Monitor payment behavior closely",
              "Consider standard security deposit">>
      [] level = "LOW" ->
            <<"Standard lease terms acceptable",
              "Consider offering lease renewal incentives">>

\* C13 as stated: every tier has 3 recommendations
C13_ThreePerTier ==
    Screened => Len(resp.value.recommendations) = 3

(* C13: the recommendation list of a screening depends on the resulting    *)
(* tier only; it is the 3 fixed strings of HIGH, the 2 fixed strings of    *)
(* MEDIUM or the 2 fixed strings of LOW.                                   *)
C13_RecommendationsByTier ==
    Screened =>
        /\ resp.value.recommendations = TierRecommendations(resp.value.riskLevel)
        /\ Len(resp.value.recommendations)
             = (IF resp.value.riskLevel = "HIGH" THEN 3 ELSE 2)

C13_Witness ==
    /\ Screened
    /\ resp.value.riskLevel = "MEDIUM"
    /\ resp.value.screeningData.creditScore < 600
    /\ Len(resp.value.recommendations) = 2

\* the penalties of a screening, from its screeningData
Penalties(data) ==
    (IF data.creditScore < 600 THEN 30
     ELSE IF data.creditScore < 650 THEN 15 ELSE 0)
    + (IF data.criminalBackground THEN 0 ELSE 40)
    + (IF data.evictionHistory THEN 0 ELSE 35)
    + (IF data.employmentVerification THEN 0 ELSE 20)
    + (IF data.incomeVerification THEN 0 ELSE 15)

(* C14: riskScore of a screening is 30 for creditScore < 600, else 15 for  *)
(* creditScore < 650, plus 40, 35, 20 and 15 for a failed criminal,        *)
(* eviction, employment and income check; riskLevel is HIGH iff            *)
(* riskScore >= 50, MEDIUM iff 25 <= riskScore < 50, LOW iff               *)
(* riskScore < 25.                                                         *)
C14_ScreeningScore ==
    Screened =>
        /\ resp.value.screeningData \in MockScreeningData
        /\ resp.value.riskScore = Penalties(resp.value.screeningData)
        /\ resp.value.riskLevel = "HIGH" <=> resp.value.riskScore >= 50
        /\ resp.value.riskLevel = "MEDIUM" <=>
              (25 <= resp.value.riskScore /\ resp.value.riskScore < 50)
        /\ resp.value.riskLevel = "LOW" <=> resp.value.riskScore < 25

C14_Witness ==
    /\ Screened
    /\ ~resp.value.screeningData.evictionHistory
    /\ resp.value.screeningData.creditScore = 649
    /\ resp.value.riskScore = 50
    /\ resp.value.riskLevel = "HIGH"

-----------------------------------------------------------------------------
(* The numbers of a response *)

\* aiRiskScore is computed: no stored analysis, or a stored score of 0
RiskScoreComputed(m) ==
    m.behaviorAnalysis = <<>> \/ m.behaviorAnalysis[1].aiRiskScore = 0

\* k is the integer nearest to n / d, halves rounded up
NearestInteger(k, n, d) ==
    /\ k \in Int
    /\ 2 * d * k - d <= 2 * n
    /\ 2 * n < 2 * d * k + d

\* the paymentReliability field of the last response
ReportedReliability ==
    IF resp.op = "generateBehaviorReport"
    THEN resp.body[1].summary.paymentReliability
    ELSE resp.body[1].paymentReliability

(* C15: the paymentReliability of a listing, details or report response is *)
(* the integer nearest to onTime / total * 100, in 0..100; and when no     *)
(* stored analysis supplies it, aiRiskScore of a listing or details        *)
(* response is the integer nearest to 100 - reliability, in 0..100.        *)
C15_RoundedNumbers ==
    (Answered /\ resp.op \in {"getLandlordTenants", "getTenantDetails",
                              "generateBehaviorReport"}) =>
        LET r == locals.paymentReliability
        IN /\ ReportedReliability \in 0..100
           /\ NearestInteger(ReportedReliability, r.n, r.d)
           /\ (resp.op # "generateBehaviorReport" /\ RiskScoreComputed(locals)) =>
                 /\ resp.body[1].aiRiskScore \in 0..100
                 /\ NearestInteger(resp.body[1].aiRiskScore, 100 * r.d - r.n, r.d)

C15_Witness ==
    /\ Answered
    /\ resp.op = "getTenantDetails"
    /\ RiskScoreComputed(locals)
    /\ locals.onTimePayments = 2
    /\ locals.totalPayments = 3
    /\ resp.body[1].paymentReliability = 67
    /\ resp.body[1].aiRiskScore = 33

-----------------------------------------------------------------------------
(* Rounding and the narratives *)

ExcellentNarrative ==
    "Excellent tenant with consistent on-time payments and minimal maintenance requests."

\* the sentence that goes with a category
SentenceOfCategory(category) ==
    CASE category = "EXCELLENT" -> ExcellentNarrative
      [] category = "GOOD" -> GoodNarrative
      [] category = "AVERAGE" -> AverageNarrative
      [] category = "HIGH_RISK" -> HighRiskNarrative

(* C16: reliability is rounded for presentation only.  The tier of the     *)
(* listing, the short narrative, the category and the payment tier of the  *)
(* details are decided on the unrounded onTime / total * 100, while the    *)
(* reported paymentReliability is the nearest integer; so an unrounded     *)
(* reliability below 70 is HIGH even when 70 is reported.                  *)
C16_RoundedForPresentationOnly ==
    /\ (args.fn = "score" /\ resp.op = "formatTenant") =>
          /\ NearestInteger(resp.value.paymentReliability,
                            args.reliability.n, args.reliability.d)
          /\ resp.value.riskLevel =
                ClassifyRiskRule(args.reliability, args.maintenanceCount,
                                 args.recentMaintenanceCount)
          /\ resp.value.aiSummary =
                SentenceOfCategory(CategoryRule(args.reliability,
                                                args.maintenanceCount))
          /\ RatLt(args.reliability, 70) => resp.value.riskLevel = "HIGH"
    /\ (args.fn = "score" /\ resp.op = "tenantDetails") =>
          /\ NearestInteger(resp.value.paymentReliability,
                            args.reliability.n, args.reliability.d)
          /\ resp.value.aiCategory =
                CategoryRule(args.reliability, args.maintenanceCount)
          /\ RatLt(args.reliability, 70) =>
                /\ resp.value.paymentRiskLevel = "HIGH"
                /\ resp.value.overallRiskLevel = "HIGH"
                /\ resp.value.aiCategory = "HIGH_RISK"
          /\ (~RatLt(args.reliability, 70) /\ RatLt(args.reliability, 85)) =>
                resp.value.paymentRiskLevel = "MEDIUM"
          /\ RatGe(args.reliability, 85) => resp.value.paymentRiskLevel = "LOW"

C16_Witness ==
    /\ args.fn = "score"
    /\ resp.op = "formatTenant"
    /\ RatLt(args.reliability, 70)
    /\ args.maintenanceCount = 0
    /\ args.recentMaintenanceCount = 0
    /\ resp.value.paymentReliability = 70
    /\ resp.value.riskLevel = "HIGH"
    /\ resp.value.aiSummary = HighRiskNarrative

(* C17: the short narrative is the Excellent, Good, Average or High-risk   *)
(* sentence exactly when categorizeTenantBehavior of the same reliability  *)
(* and maintenance total is EXCELLENT, GOOD, AVERAGE or HIGH_RISK, and no  *)
(* value of recent30d changes the sentence.                                *)
C17_NarrativeFollowsCategory ==
    (args.fn = "score" /\ resp.op = "generateBehaviorSummary") =>
        /\ resp.value =
              SentenceOfCategory(categorizeTenantBehavior(args.reliability,
                                                          args.maintenanceCount))
        /\ \A category \in {"EXCELLENT", "GOOD", "AVERAGE", "HIGH_RISK"} :
              resp.value = SentenceOfCategory(category) <=>
                 categorizeTenantBehavior(args.reliability,
                                          args.maintenanceCount) = category
        /\ \A recent30d \in 0..MaxRecentArg :
              generateBehaviorSummary(args.reliability, args.maintenanceCount,
                                      recent30d) = resp.value

C17_Witness ==
    /\ args.fn = "score"
    /\ resp.op = "generateBehaviorSummary"
    /\ args.reliability = Rat(100 * RelDen, RelDen)
    /\ args.maintenanceCount = 3
    /\ args.recentMaintenanceCount = 3
    /\ resp.value = AverageNarrative

\* the payment-history clause, by reliability alone
PaymentClause(rel) ==
    CASE rel.n >= 90 * rel.d -> "Excellent payment history with 90%+ on-time payments"
      [] rel.n >= 80 * rel.d /\ rel.n < 90 * rel.d ->
            "Good payment history with mostly reliable payments"
      [] rel.n >= 70 * rel.d /\ rel.n < 80 * rel.d ->
            "Average payment history with some delays"
      [] rel.n < 70 * rel.d -> "Poor payment history with frequent delays"

\* the maintenance-volume clause, by count alone
VolumeClause(count) ==
    CASE count = 0 -> "No maintenance requests submitted"
      [] count \in 1..2 -> "Minimal maintenance requests"
      [] count \in 3..5 -> "Moderate maintenance requests"
      [] count > 5 -> "Excessive maintenance requests"

\* the number of clauses of the detailed narrative of the call
ClauseCount ==
    2 + (IF args.averageDelay > 0 THEN 1 ELSE 0)
      + (IF args.recentMaintenanceCount > 2 THEN 1 ELSE 0)

(* C18: the detailed narrative is the payment-history clause chosen by     *)
(* reliability alone, then the delay clause iff avgDelay > 0, then the     *)
(* maintenance-volume clause chosen by count, then the recent-increase     *)
(* clause iff recent30d > 2, in that order, separated by ". " and closed   *)
(* by a period: between 2 and 4 clauses.                                   *)
C18_DetailedNarrative ==
    (args.fn = "detail" /\ resp.op = "generateDetailedBehaviorSummary") =>
        /\ resp.value =
              PaymentClause(args.reliability)
              \o (IF args.averageDelay > 0
                  THEN ". Average payment delay of "
                       \o ToString(args.averageDelay) \o " days"
                  ELSE "")
              \o ". " \o VolumeClause(args.maintenanceCount)
              \o (IF args.recentMaintenanceCount > 2
                  THEN ". Recent increase in maintenance requests"
                  ELSE "")
              \o "."
        /\ Len(summaryClauses(args.reliability, args.maintenanceCount,
                              args.recentMaintenanceCount, args.averageDelay))
              = ClauseCount
        /\ ClauseCount \in 2..4

C18_Witness ==
    /\ args.fn = "detail"
    /\ resp.op = "generateDetailedBehaviorSummary"
    /\ args.maintenanceCount = 6
    /\ resp.value = "Good payment history with mostly reliable payments. "
                    \o "Average payment delay of 2 days. "
                    \o "Excessive maintenance requests. "
                    \o "Recent increase in maintenance requests."

-----------------------------------------------------------------------------
(* The payment trend of the report *)

\* every stored payment of the tenant, the most recent dueDate first
MostRecentFirst == OrderByDesc(FlatMapPayments(tenant.Lease), "dueDate")

\* the on-time payments among positions from..to of MostRecentFirst
OnTimeAmong(from, to) ==
    Cardinality({ i \in from..to :
                    /\ i <= Len(MostRecentFirst)
                    /\ MostRecentFirst[i].timingStatus \in {"ONTIME", "ADVANCE"} })

TrendRule ==
    IF Len(MostRecentFirst) < 3 THEN "INSUFFICIENT_DATA"
    ELSE IF OnTimeAmong(1, 3) > OnTimeAmong(4, 6) THEN "IMPROVING"
    ELSE IF OnTimeAmong(1, 3) < OnTimeAmong(4, 6) THEN "DECLINING"
    ELSE "STABLE"

(* C19: the trend of a report is INSUFFICIENT_DATA iff the tenant has      *)
(* fewer than 3 payments; otherwise it is IMPROVING, DECLINING or STABLE   *)
(* as the on-time (ONTIME or ADVANCE) payments among the 3 most recent     *)
(* payments are more than, fewer than or as many as those among the next 3 *)
(* older ones.                                                             *)
C19_TrendOfMostRecent ==
    (Answered /\ resp.op = "generateBehaviorReport") =>
        /\ resp.body[1].paymentBehavior.trend = TrendRule
        /\ resp.body[1].paymentBehavior.trend = "INSUFFICIENT_DATA"
              <=> Len(MostRecentFirst) < 3

-----------------------------------------------------------------------------
(* The maintenance signal *)

\* the positions of the requests the handler fetched that were created
\* strictly later than 30 days before the clock it read
RecentPositions ==
    { i \in DOMAIN locals.maintenanceRequests :
        locals.maintenanceRequests[i].createdAt > locals.now - 30 * DayMs }

(* C20: in the listing and in the details, the maintenance total is the    *)
(* number of requests fetched (every stored request in the details),       *)
(* recent30d the number of them created strictly later than now minus 30   *)
(* days, hasFrequentComplaints is recent30d > 2, and recent30d <= total.   *)
C20_MaintenanceSignal ==
    (Answered /\ resp.op \in {"getLandlordTenants", "getTenantDetails"}) =>
        /\ resp.body[1].maintenanceRequestsCount = Len(locals.maintenanceRequests)
        /\ resp.op = "getTenantDetails" =>
              resp.body[1].maintenanceRequestsCount = Len(tenant.maintenanceRequests)
        /\ resp.body[1].recentMaintenanceCount = Cardinality(RecentPositions)
        /\ resp.body[1].hasFrequentComplaints
              <=> resp.body[1].recentMaintenanceCount > 2
        /\ resp.body[1].recentMaintenanceCount
              <= resp.body[1].maintenanceRequestsCount

C20_Witness ==
    /\ Answered
    /\ resp.op = "getTenantDetails"
    /\ \E i \in DOMAIN locals.maintenanceRequests :
          locals.maintenanceRequests[i].createdAt = locals.now - 30 * DayMs
    /\ resp.body[1].maintenanceRequestsCount = 5
    /\ resp.body[1].recentMaintenanceCount = 3
    /\ resp.body[1].hasFrequentComplaints

-----------------------------------------------------------------------------
(* The categories of the maintenance requests *)

\* the first category, in the order plumbing, electrical, hvac, emergency,
\* one of whose keywords is among words; general without any
FirstMatch(words) ==
    CASE words \cap PlumbingWords # {} -> "plumbing"
      [] words \cap PlumbingWords = {} /\ words \cap ElectricalWords # {} -> "electrical"
      [] words \cap (PlumbingWords \cup ElectricalWords) = {}
         /\ words \cap HvacWords # {} -> "hvac"
      [] words \cap (PlumbingWords \cup ElectricalWords \cup HvacWords) = {}
         /\ words \cap EmergencyWords # {} -> "emergency"
      [] OTHER -> "general"

Categories == {"plumbing", "electrical", "hvac", "general", "emergency"}

-----------------------------------------------------------------------------
(* The renewal rate *)

\* the leases of the call whose unitId another lease of the call has too
SharedUnitLeases ==
    { i \in DOMAIN args.leases :
        \E j \in DOMAIN args.leases :
            j # i /\ args.leases[j].unitId = args.leases[i].unitId }

(* C22: calculateRenewalRate is 0 for 0 or 1 leases; otherwise it is       *)
(* 100 * (leases whose unitId another lease shares) / (leases), which lies *)
(* in 0..100, and the number of such leases is never exactly 1.            *)
C22_RenewalRate ==
    (args.fn = "renewal" /\ resp.op = "calculateRenewalRate") =>
        /\ Len(args.leases) <= 1 => resp.value.n = 0
        /\ Len(args.leases) > 1 =>
              resp.value.n * Len(args.leases)
                 = 100 * Cardinality(SharedUnitLeases) * resp.value.d
        /\ resp.value.d > 0
        /\ 0 <= resp.value.n
        /\ resp.value.n <= 100 * resp.value.d
        /\ Cardinality(SharedUnitLeases) # 1

C22_Witness ==
    /\ args.fn = "renewal"
    /\ resp.op = "calculateRenewalRate"
    /\ Len(args.leases) = 3
    /\ Cardinality(SharedUnitLeases) = 2
    /\ 3 * resp.value.n = 200 * resp.value.d

-----------------------------------------------------------------------------
(* Tier and category together *)

(* C23: when recent30d <= maintenanceTotal, category EXCELLENT implies     *)
(* tier LOW, tier LOW implies category EXCELLENT or GOOD, category         *)
(* HIGH_RISK implies tier MEDIUM or HIGH, and category GOOD or EXCELLENT   *)
(* implies the tier is not HIGH.                                           *)
C23_TierAndCategoryAgree ==
    (/\ args.fn = "score"
     /\ resp.op = "riskLevel"
     /\ args.recentMaintenanceCount <= args.maintenanceCount) =>
        LET category == categorizeTenantBehavior(args.reliability,
                                                 args.maintenanceCount)
        IN /\ category = "EXCELLENT" => resp.value = "LOW"
           /\ resp.value = "LOW" => category \in {"EXCELLENT", "GOOD"}
           /\ category = "HIGH_RISK" => resp.value \in {"MEDIUM", "HIGH"}
           /\ category \in {"GOOD", "EXCELLENT"} => resp.value # "HIGH"

C23_Witness ==
    /\ args.fn = "score"
    /\ resp.op = "riskLevel"
    /\ args.maintenanceCount = 2
    /\ args.recentMaintenanceCount = 2
    /\ categorizeTenantBehavior(args.reliability, args.maintenanceCount) = "GOOD"
    /\ resp.value = "MEDIUM"

-----------------------------------------------------------------------------
(* The listing works on truncated data *)

(* C24: in the listing at most 3 maintenance requests and at most 5        *)
(* payments of each lease are loaded, so maintenanceRequestsCount <= 3 and *)
(* recentMaintenanceCount <= 3, and riskLevel HIGH comes only with         *)
(* reliability < 70 or recentMaintenanceCount = 3, never from              *)
(* maintenanceCount > 5.                                                   *)
C24_ListingTruncated ==
    (Answered /\ resp.op = "getLandlordTenants") =>
        /\ Len(locals.maintenanceRequests) <= 3
        /\ \A i \in DOMAIN locals.Lease : Len(locals.Lease[i].payments) <= 5
        /\ resp.body[1].maintenanceRequestsCount <= 3
        /\ resp.body[1].recentMaintenanceCount <= 3
        /\ resp.body[1].riskLevel = "HIGH" =>
              \/ RatLt(locals.paymentReliability, 70)
              \/ resp.body[1].recentMaintenanceCount = 3

C24_Witness ==
    /\ Answered
    /\ resp.op = "getLandlordTenants"
    /\ Len(tenant.maintenanceRequests) = 9
    /\ Len(tenant.Lease[1].payments) = 6
    /\ Len(locals.Lease[1].payments) = 5
    /\ resp.body[1].maintenanceRequestsCount = 3
    /\ resp.body[1].recentMaintenanceCount = 3
    /\ resp.body[1].totalPayments = 5
    /\ resp.body[1].riskLevel = "HIGH"

-----------------------------------------------------------------------------
(* Risk factors and recommendations of the report *)

Range(list) == { list[i] : i \in DOMAIN list }

PositiveRecommendations ==
    {"Consider offering lease renewal incentives",
     "Nominate for tenant of the month program"}

CorrectiveRecommendations ==
    {"Implement stricter payment monitoring and reminders",
     "Consider requiring automatic payment setup",
     "Schedule regular property inspections",
     "Consider implementing maintenance request limits",
     "Investigate recent increase in maintenance requests",
     "Consider tenant education on proper maintenance reporting"}

(* C25: in the report riskFactors is non-empty exactly when reliability    *)
(* < 70 or maintenanceCount > 5 or recentMaintenanceCount > 2; "Very poor  *)
(* payment reliability" comes only with "Poor payment history"; and with   *)
(* recentMaintenanceCount <= maintenanceCount no positive recommendation   *)
(* comes with a corrective one.                                            *)
C25_FactorsAndRecommendations ==
    (Answered /\ resp.op = "generateBehaviorReport") =>
        LET factors == Range(resp.body[1].riskFactors)
            advice == Range(resp.body[1].recommendations)
        IN /\ factors # {} <=>
                 \/ RatLt(locals.paymentReliability, 70)
                 \/ locals.maintenanceCount > 5
                 \/ locals.recentMaintenanceCount > 2
           /\ "Very poor payment reliability" \in factors =>
                 "Poor payment history" \in factors
           /\ locals.recentMaintenanceCount <= locals.maintenanceCount =>
                 ~(/\ advice \cap PositiveRecommendations # {}
                   /\ advice \cap CorrectiveRecommendations # {})
           /\ advice \subseteq PositiveRecommendations \cup CorrectiveRecommendations

C25_Witness ==
    /\ Answered
    /\ resp.op = "generateBehaviorReport"
    /\ locals.totalPayments > 0
    /\ locals.maintenanceCount = 1
    /\ locals.recentMaintenanceCount = 1
    /\ resp.body[1].riskFactors = <<>>
    /\ Range(resp.body[1].recommendations) = PositiveRecommendations

-----------------------------------------------------------------------------
(* adminController.js: updatePropertyRequestStatus.  Every await of the    *)
(* handler is a step of its own; the calls of different clients interleave *)
(* between the steps.                                                      *)

Clients == 1..MaxClients

\* a client that has nothing in flight and has not called yet
IdleCall == [pc |-> "idle", answers |-> <<>>]

\* the call of client p ends with the status code
Answer(p, code) ==
    [pc |-> "idle", answers |-> Append(calls[p].answers, code)]

CanCall(p) == calls[p].pc = "idle" /\ Len(calls[p].answers) < MaxCallsEach

ListingInputs ==
    [status : {"PENDING", "ACTIVE"}, expiresAt : {NoDate}, adminNotes : { <<>> }]

\* the checks up to and including prisma.listing.findUnique
UpdatePropertyRequestFind(p) ==
    /\ CanCall(p)
    /\ \E admin \in {"none", "admin"}, listingId \in {1, 2},
          status \in {"APPROVED", "REJECTED", "BLOCKED", "ACTIVE"},
          adminNotes \in BOOLEAN :
          calls' = [calls EXCEPT ![p] =
              IF admin = "none" THEN Answer(p, 401)
              ELSE IF status \notin {"APPROVED", "REJECTED", "BLOCKED"}
              THEN Answer(p, 400)
              ELSE IF listingId # 1 THEN Answer(p, 404)
              ELSE IF db.listing.status # "PENDING" THEN Answer(p, 400)
              ELSE [pc |-> IF status = "APPROVED" THEN "unit.update"
                           ELSE "listing.update",
                    answers |-> calls[p].answers,
                    status |-> status,
                    adminNotes |-> adminNotes,
                    listing |-> db.listing]]
    /\ UNCHANGED <<tenant, now, locals, resp, args, db>>

\* prisma.unit.update({ data: { listedAt: new Date() } })
UpdatePropertyRequestUnit(p) ==
    /\ calls[p].pc = "unit.update"
    /\ db' = [db EXCEPT !.unitListedAt = now]
    /\ calls' = [calls EXCEPT ![p].pc = "listing.update"]
    /\ UNCHANGED <<tenant, now, locals, resp, args>>

\* prisma.listing.update({ data: updateData })
UpdatePropertyRequestListing(p) ==
    /\ calls[p].pc = "listing.update"
    /\ db' = [db EXCEPT
                !.listing.status = IF calls[p].status = "APPROVED" THEN "ACTIVE"
                                   ELSE calls[p].status,
                !.listing.expiresAt = IF calls[p].status = "APPROVED"
                                      THEN now + 90 * DayMs ELSE @,
                !.listing.adminNotes = IF calls[p].adminNotes
                                       THEN Append(calls[p].listing.adminNotes, p)
                                       ELSE @]
    /\ calls' = [calls EXCEPT ![p].pc = "notification.create"]
    /\ UNCHANGED <<tenant, now, locals, resp, args>>

\* prisma.notification.create, then res.json
UpdatePropertyRequestNotify(p) ==
    /\ calls[p].pc = "notification.create"
    /\ db' = [db EXCEPT !.notifications =
                Append(@, [type |-> "LISTING", status |-> "UNREAD",
                           decision |-> calls[p].status])]
    /\ calls' = [calls EXCEPT ![p] = Answer(p, 200)]
    /\ UNCHANGED <<tenant, now, locals, resp, args>>

InitListing ==
    /\ db \in [table : {"listing"}, listing : ListingInputs,
               unitListedAt : {NoDate}, notifications : { <<>> }]
    /\ calls = [p \in Clients |-> IdleCall]
    /\ tenant = NoTenant
    /\ now = Now0
    /\ locals = NoLocals
    /\ resp = NoResp
    /\ args = NoArgs

NextListing ==
    \E p \in Clients :
        \/ UpdatePropertyRequestFind(p)
        \/ UpdatePropertyRequestUnit(p)
        \/ UpdatePropertyRequestListing(p)
        \/ UpdatePropertyRequestNotify(p)

SpecListing == InitListing /\ [][NextListing]_vars

-----------------------------------------------------------------------------
(* A listing request is decided once *)

\* how many calls of the clients were answered with the code
RECURSIVE CountAnswers(_, _)
CountAnswers(clients, code) ==
    IF clients = {} THEN 0
    ELSE LET p == CHOOSE q \in clients : TRUE
         IN Len(SelectSeq(calls[p].answers, LAMBDA a : a = code))
            + CountAnswers(clients \ {p}, code)

(* C26: a listing request is decided at most once: the stored status is    *)
(* never APPROVED, at most one call on the listing succeeds under any      *)
(* interleaving, and exactly one notification is created for each          *)
(* success, so at most one.                                                *)
C26_DecidedOnce ==
    /\ db.listing.status # "APPROVED"
    /\ CountAnswers(Clients, 200) <= 1
    /\ Len(db.notifications) <= 1

-----------------------------------------------------------------------------
(* adminController.js: toggleUserStatus *)

UserInputs == [role : {"ADMIN", "LANDLORD", "TENANT"}, isDisabled : BOOLEAN]

\* the checks up to and including prisma.user.findUnique
ToggleUserStatusFind(p) ==
    /\ CanCall(p)
    /\ \E admin \in {"none", "admin"}, userId \in {1, 2} :
          calls' = [calls EXCEPT ![p] =
              IF admin = "none" THEN Answer(p, 401)
              ELSE IF userId # 1 THEN Answer(p, 404)
              ELSE IF db.user.role = "ADMIN" THEN Answer(p, 403)
              ELSE [pc |-> "user.update",
                    answers |-> calls[p].answers,
                    targetUser |-> db.user]]
    /\ UNCHANGED <<tenant, now, locals, resp, args, db>>

\* prisma.user.update({ data: { isDisabled: !targetUser.isDisabled } })
ToggleUserStatusUpdate(p) ==
    /\ calls[p].pc = "user.update"
    /\ db' = [db EXCEPT !.user.isDisabled = ~calls[p].targetUser.isDisabled]
    /\ calls' = [calls EXCEPT ![p] = Answer(p, 200)]
    /\ UNCHANGED <<tenant, now, locals, resp, args>>

\* userAtStart keeps the row as it was before any call
InitToggle ==
    /\ \E user \in UserInputs :
          db = [table |-> "user", user |-> user, userAtStart |-> user]
    /\ calls = [p \in Clients |-> IdleCall]
    /\ tenant = NoTenant
    /\ now = Now0
    /\ locals = NoLocals
    /\ resp = NoResp
    /\ args = NoArgs

NextToggle ==
    \E p \in Clients :
        \/ ToggleUserStatusFind(p)
        \/ ToggleUserStatusUpdate(p)

SpecToggle == InitToggle /\ [][NextToggle]_vars

(* C29: toggleUserStatus never changes isDisabled of an ADMIN user and     *)
(* never answers such a call with 200; for any other user each successful  *)
(* call flips isDisabled, so once no call is in flight the value is the    *)
(* original one after an even number of successful toggles, successive or  *)
(* concurrent, and the opposite after an odd number.                       *)
C29_ToggleFlips ==
    /\ db.user.role = "ADMIN" =>
          /\ db.user.isDisabled = db.userAtStart.isDisabled
          /\ CountAnswers(Clients, 200) = 0
    /\ (\A p \in Clients : calls[p].pc = "idle") =>
          db.user.isDisabled =
             (IF CountAnswers(Clients, 200) % 2 = 0
              THEN db.userAtStart.isDisabled
              ELSE ~db.userAtStart.isDisabled)

-----------------------------------------------------------------------------
(* messageController.js: createOrGetConversation, and its copy             *)
(* createOrGetTenantConversation in the tenant controller                  *)

People == 1..MaxPeople

\* the checks up to and including prisma.conversation.findFirst; an
\* existing conversation is returned
conversationFind(p, handler, currentUserId, otherUserId) ==
    IF currentUserId = 0 THEN Answer(p, 401)
    ELSE IF otherUserId = 0 THEN Answer(p, 400)
    ELSE IF currentUserId = otherUserId THEN Answer(p, 400)
    ELSE IF \E i \in DOMAIN db.conversations :
               {db.conversations[i].userAId, db.conversations[i].userBId}
                  = {currentUserId, otherUserId}
    THEN Answer(p, 200)
    ELSE [pc |-> "conversation.create",
          answers |-> calls[p].answers,
          op |-> handler,
          currentUserId |-> currentUserId,
          otherUserId |-> otherUserId]

CreateOrGetConversationFind(p) ==
    /\ CanCall(p)
    /\ \E currentUserId \in People \cup {0}, otherUserId \in People \cup {0} :
          calls' = [calls EXCEPT ![p] =
              conversationFind(p, "createOrGetConversation", currentUserId, otherUserId)]
    /\ resp' = IF calls'[p].pc = "idle"
               THEN [op |-> "createOrGetConversation",
                     status |-> calls'[p].answers[Len(calls'[p].answers)]]
               ELSE resp
    /\ UNCHANGED <<tenant, now, locals, args, db>>

\* prisma.conversation.create.  The schema is not part of the sources: when
\* a row with the same userAId and userBId exists the create either succeeds
\* or is refused by a unique index and the catch block answers 500.
CreateOrGetConversationCreate(p) ==
    /\ calls[p].pc = "conversation.create"
    /\ calls[p].op = "createOrGetConversation"
    /\ \/ /\ db' = [db EXCEPT !.conversations = Append(@, [userAId |-> calls[p].currentUserId,
                    userBId |-> calls[p].otherUserId])]
          /\ calls' = [calls EXCEPT ![p] = Answer(p, 200)]
       \/ /\ \E i \in DOMAIN db.conversations :
                db.conversations[i] = [userAId |-> calls[p].currentUserId,
                    userBId |-> calls[p].otherUserId]
          /\ db' = db
          /\ calls' = [calls EXCEPT ![p] = Answer(p, 500)]
    /\ resp' = IF calls'[p].pc = "idle"
               THEN [op |-> "createOrGetConversation",
                     status |-> calls'[p].answers[Len(calls'[p].answers)]]
               ELSE resp
    /\ UNCHANGED <<tenant, now, locals, args>>

CreateOrGetTenantConversationFind(p) ==
    /\ CanCall(p)
    /\ \E currentUserId \in People \cup {0}, otherUserId \in People \cup {0} :
          calls' = [calls EXCEPT ![p] =
              conversationFind(p, "createOrGetTenantConversation", currentUserId, otherUserId)]
    /\ resp' = IF calls'[p].pc = "idle"
               THEN [op |-> "createOrGetTenantConversation",
                     status |-> calls'[p].answers[Len(calls'[p].answers)]]
               ELSE resp
    /\ UNCHANGED <<tenant, now, locals, args, db>>

CreateOrGetTenantConversationCreate(p) ==
    /\ calls[p].pc = "conversation.create"
    /\ calls[p].op = "createOrGetTenantConversation"
    /\ \/ /\ db' = [db EXCEPT !.conversations = Append(@, [userAId |-> calls[p].currentUserId,
                    userBId |-> calls[p].otherUserId])]
          /\ calls' = [calls EXCEPT ![p] = Answer(p, 200)]
       \/ /\ \E i \in DOMAIN db.conversations :
                db.conversations[i] = [userAId |-> calls[p].currentUserId,
                    userBId |-> calls[p].otherUserId]
          /\ db' = db
          /\ calls' = [calls EXCEPT ![p] = Answer(p, 500)]
    /\ resp' = IF calls'[p].pc = "idle"
               THEN [op |-> "createOrGetTenantConversation",
                     status |-> calls'[p].answers[Len(calls'[p].answers)]]
               ELSE resp
    /\ UNCHANGED <<tenant, now, locals, args>>

InitConversation ==
    /\ db = [table |-> "conversation", conversations |-> <<>>]
    /\ calls = [p \in Clients |-> IdleCall]
    /\ tenant = NoTenant
    /\ now = Now0
    /\ locals = NoLocals
    /\ resp = NoResp
    /\ args = NoArgs

NextConversation ==
    \E p \in Clients :
        \/ CreateOrGetConversationFind(p)
        \/ CreateOrGetConversationCreate(p)
        \/ CreateOrGetTenantConversationFind(p)
        \/ CreateOrGetTenantConversationCreate(p)

SpecConversation == InitConversation /\ [][NextConversation]_vars

(* C27: no conversation joins a user with themselves, and after any        *)
(* sequence or interleaving of createOrGetConversation and                 *)
(* createOrGetTenantConversation calls no two conversations join the same  *)
(* unordered pair of users.                                                *)
C27_OneConversationPerPair ==
    /\ \A i \in DOMAIN db.conversations :
          db.conversations[i].userAId # db.conversations[i].userBId
    /\ \A i, j \in DOMAIN db.conversations :
          i # j =>
             {db.conversations[i].userAId, db.conversations[i].userBId}
                # {db.conversations[j].userAId, db.conversations[j].userBId}

-----------------------------------------------------------------------------
(* messageController.js: getConversationMessages and sendMessage, and      *)
(* their copies getTenantConversationMessages and sendTenantMessage in the *)
(* tenant controller.  One read is in flight at a time, each of its awaits *)
(* a step; messages are sent between its steps.                            *)

\* conversation 1 joins users 1 and 2, conversation 2 joins users 2 and 3;
\* conversation 3 does not exist
StoredConversations ==
    <<[userAId |-> 1, userBId |-> 2, updatedAt |-> NoDate],
      [userAId |-> 2, userBId |-> 3, updatedAt |-> NoDate]>>

\* a message is sent by a participant of its conversation
MessageInputs ==
    LET rows ==
            { m \in [conversationId : DOMAIN StoredConversations,
                     senderId : {1, 2, 3},
                     isRead : BOOLEAN] :
                m.senderId \in {StoredConversations[m.conversationId].userAId,
                                StoredConversations[m.conversationId].userBId} }
    IN UNION { [1..n -> rows] : n \in 0..MaxMessages }

\* the client whose read is followed step by step
Reader == 1

\* findFirst({ where: { id: conversationId, OR: [{ userAId }, { userBId }] } })
isParticipant(conversationId, userId) ==
    /\ conversationId \in DOMAIN db.conversations
    /\ \/ db.conversations[conversationId].userAId = userId
       \/ db.conversations[conversationId].userBId = userId

\* findMany({ where: { conversationId } }): the rows with their ids
messagesOf(conversationId) ==
    SelectSeq([i \in DOMAIN db.messages |->
                  [id |-> i,
                   senderId |-> db.messages[i].senderId,
                   isRead |-> db.messages[i].isRead,
                   conversationId |-> db.messages[i].conversationId]],
              LAMBDA m : m.conversationId = conversationId)

\* the same, with no senderId condition
markReadAnySender(messages, conversationId, userId) ==
    [i \in DOMAIN messages |->
        IF /\ messages[i].conversationId = conversationId
           /\ ~messages[i].isRead
        THEN [messages[i] EXCEPT !.isRead = TRUE]
        ELSE messages[i]]

\* updateMany({ where: { conversationId, senderId: { not: userId },
\*                       isRead: false }, data: { isRead: true } })
markRead(messages, conversationId, userId) ==
    [i \in DOMAIN messages |->
        IF /\ messages[i].conversationId = conversationId
           /\ messages[i].senderId # userId
           /\ ~messages[i].isRead
        THEN [messages[i] EXCEPT !.isRead = TRUE]
        ELSE messages[i]]

\* return res.status(code).json(...) before the first write
messageAnswer(code) == [pc |-> "idle", answers |-> <<code>>]

\* the last response sent, once the call is over: the status, and on
\* success conversation.otherUser.id and the formatted messages
messageResponse(handler, call, other, messages) ==
    IF call.pc = "idle"
    THEN [op |-> handler, status |-> call.answers[1],
          otherUser |-> other, messages |-> messages]
    ELSE resp

\* the checks up to and including prisma.conversation.findFirst
GetConversationMessagesFind ==
    /\ calls[Reader].pc = "idle"
    /\ \E ownerId \in 0..3, conversationId \in 0..3 :
          calls' = [calls EXCEPT ![Reader] =
              IF ownerId = 0 THEN messageAnswer(401)
              ELSE IF conversationId = 0 THEN messageAnswer(400)
              ELSE IF ~isParticipant(conversationId, ownerId) THEN messageAnswer(404)
              ELSE [pc |-> "message.findMany",
                    answers |-> <<>>,
                    op |-> "getConversationMessages",
                    userId |-> ownerId,
                    conversationId |-> conversationId,
                    started |-> Len(db.messages),
                    messages |-> <<>>]]
    /\ resp' = messageResponse("getConversationMessages", calls'[Reader], 0, <<>>)
    /\ UNCHANGED <<tenant, now, locals, args, db>>

\* prisma.message.findMany({ where: { conversationId } })
GetConversationMessagesFindMany ==
    /\ calls[Reader].pc = "message.findMany"
    /\ calls[Reader].op = "getConversationMessages"
    /\ calls' = [calls EXCEPT ![Reader].pc = "message.updateMany",
                              ![Reader].messages =
                                  messagesOf(calls[Reader].conversationId)]
    /\ UNCHANGED <<tenant, now, locals, resp, args, db>>

\* prisma.message.updateMany marks the messages read, then the messages
\* fetched before are sent
GetConversationMessagesUpdateMany ==
    /\ calls[Reader].pc = "message.updateMany"
    /\ calls[Reader].op = "getConversationMessages"
    /\ db' = [db EXCEPT !.messages =
                 markRead(@, calls[Reader].conversationId, calls[Reader].userId)]
    /\ calls' = [calls EXCEPT ![Reader] = messageAnswer(200)]
    /\ resp' = messageResponse("getConversationMessages", calls'[Reader],
                                IF db.conversations[calls[Reader].conversationId].userAId
                                      = calls[Reader].userId
                                THEN db.conversations[calls[Reader].conversationId].userBId
                                ELSE db.conversations[calls[Reader].conversationId].userAId,
                                calls[Reader].messages)
    /\ UNCHANGED <<tenant, now, locals, args>>

\* the checks up to and including prisma.conversation.findFirst
GetTenantConversationMessagesFind ==
    /\ calls[Reader].pc = "idle"
    /\ \E tenantId \in 0..3, conversationId \in 0..3 :
          calls' = [calls EXCEPT ![Reader] =
              IF tenantId = 0 THEN messageAnswer(401)
              ELSE IF conversationId = 0 THEN messageAnswer(400)
              ELSE IF ~isParticipant(conversationId, tenantId) THEN messageAnswer(404)
              ELSE [pc |-> "message.findMany",
                    answers |-> <<>>,
                    op |-> "getTenantConversationMessages",
                    userId |-> tenantId,
                    conversationId |-> conversationId,
                    started |-> Len(db.messages),
                    messages |-> <<>>]]
    /\ resp' = messageResponse("getTenantConversationMessages", calls'[Reader], 0, <<>>)
    /\ UNCHANGED <<tenant, now, locals, args, db>>

\* prisma.message.findMany({ where: { conversationId } })
GetTenantConversationMessagesFindMany ==
    /\ calls[Reader].pc = "message.findMany"
    /\ calls[Reader].op = "getTenantConversationMessages"
    /\ calls' = [calls EXCEPT ![Reader].pc = "message.updateMany",
                              ![Reader].messages =
                                  messagesOf(calls[Reader].conversationId)]
    /\ UNCHANGED <<tenant, now, locals, resp, args, db>>

\* prisma.message.updateMany marks the messages read, then the messages
\* fetched before are sent
GetTenantConversationMessagesUpdateMany ==
    /\ calls[Reader].pc = "message.updateMany"
    /\ calls[Reader].op = "getTenantConversationMessages"
    /\ db' = [db EXCEPT !.messages =
                 markRead(@, calls[Reader].conversationId, calls[Reader].userId)]
    /\ calls' = [calls EXCEPT ![Reader] = messageAnswer(200)]
    /\ resp' = messageResponse("getTenantConversationMessages", calls'[Reader],
                                IF db.conversations[calls[Reader].conversationId].userAId
                                      = calls[Reader].userId
                                THEN db.conversations[calls[Reader].conversationId].userBId
                                ELSE db.conversations[calls[Reader].conversationId].userAId,
                                calls[Reader].messages)
    /\ UNCHANGED <<tenant, now, locals, args>>

\* the whole call: the checks, prisma.message.create (a new message is
\* unread) and prisma.conversation.update of updatedAt
SendMessage ==
    /\ Len(db.messages) < MaxMessages
    /\ \E senderId \in 0..3, conversationId \in 0..3,
          content \in BOOLEAN :
          LET status == IF senderId = 0 THEN 401
                        ELSE IF conversationId = 0 \/ ~content THEN 400
                        ELSE IF ~isParticipant(conversationId, senderId) THEN 404
                        ELSE 200
          IN /\ db' = IF status = 200
                      THEN [db EXCEPT
                              !.messages = Append(@,
                                  [conversationId |-> conversationId,
                                   senderId |-> senderId,
                                   isRead |-> FALSE]),
                              !.conversations[conversationId].updatedAt = now]
                      ELSE db
             /\ resp' = [op |-> "sendMessage", status |-> status,
                         otherUser |-> 0, messages |-> <<>>]
    /\ UNCHANGED <<tenant, now, locals, args, calls>>

\* the whole call: the checks, prisma.message.create (a new message is
\* unread) and prisma.conversation.update of updatedAt
SendTenantMessage ==
    /\ Len(db.messages) < MaxMessages
    /\ \E senderId \in 0..3, conversationId \in 0..3,
          content \in BOOLEAN :
          LET status == IF senderId = 0 THEN 401
                        ELSE IF conversationId = 0 \/ ~content THEN 400
                        ELSE IF ~isParticipant(conversationId, senderId) THEN 404
                        ELSE 200
          IN /\ db' = IF status = 200
                      THEN [db EXCEPT
                              !.messages = Append(@,
                                  [conversationId |-> conversationId,
                                   senderId |-> senderId,
                                   isRead |-> FALSE]),
                              !.conversations[conversationId].updatedAt = now]
                      ELSE db
             /\ resp' = [op |-> "sendTenantMessage", status |-> status,
                         otherUser |-> 0, messages |-> <<>>]
    /\ UNCHANGED <<tenant, now, locals, args, calls>>

InitMessages ==
    /\ db \in [table : {"message"},
               conversations : {StoredConversations},
               messages : MessageInputs]
    /\ calls = [p \in {Reader} |-> IdleCall]
    /\ tenant = NoTenant
    /\ now = Now0
    /\ locals = NoLocals
    /\ resp = NoResp
    /\ args = NoArgs

NextMessages ==
    \/ GetConversationMessagesFind
    \/ GetConversationMessagesFindMany
    \/ GetConversationMessagesUpdateMany
    \/ GetTenantConversationMessagesFind
    \/ GetTenantConversationMessagesFindMany
    \/ GetTenantConversationMessagesUpdateMany
    \/ SendMessage
    \/ SendTenantMessage

SpecMessages == InitMessages /\ [][NextMessages]_vars

ReadHandlers == {"getConversationMessages", "getTenantConversationMessages"}

(* C30: a participant's read marks read every message of the conversation  *)
(* that the other user sent and that existed when the call started, leaves *)
(* the isRead flag of the reader's own messages and of the messages of     *)
(* other conversations as it was, and adds or removes no message; the      *)
(* steps before the marking, and a call answered 404 (a non-participant's),*)
(* change no message.                                                      *)
C30_ReadMarksOthersOnly ==
    [][LET call == calls[Reader]
           before == db.messages
           after == db'.messages
       IN /\ (call.pc = "message.updateMany" /\ calls'[Reader].pc = "idle") =>
                /\ resp'.op = call.op /\ resp'.status = 200
                /\ DOMAIN after = DOMAIN before
                /\ \A i \in DOMAIN before :
                      /\ after[i].senderId = before[i].senderId
                      /\ after[i].conversationId = before[i].conversationId
                      /\ ( /\ i <= call.started
                           /\ before[i].conversationId = call.conversationId
                           /\ before[i].senderId # call.userId ) => after[i].isRead
                      /\ before[i].senderId = call.userId
                            => after[i].isRead = before[i].isRead
                      /\ before[i].conversationId # call.conversationId
                            => after[i].isRead = before[i].isRead
          /\ (call.pc \in {"idle", "message.findMany"} /\ resp'.op \in ReadHandlers
                /\ calls' # calls) => after = before
          /\ (call.pc = "idle" /\ resp'.op \in ReadHandlers /\ resp'.status = 404)
                => after = before
      ]_vars

\* a read was answered with a message of the other user still unread in the
\* response and now read in the database, the reader's own message unread
C30_Witness ==
    /\ db.table = "message"
    /\ resp.op \in ReadHandlers
    /\ resp.status = 200
    /\ \E k \in DOMAIN resp.messages :
          /\ resp.messages[k].senderId = resp.otherUser
          /\ ~resp.messages[k].isRead
          /\ db.messages[resp.messages[k].id].isRead
    /\ \E k \in DOMAIN resp.messages :
          /\ resp.messages[k].senderId # resp.otherUser
          /\ ~db.messages[resp.messages[k].id].isRead

-----------------------------------------------------------------------------
(* tenant/tenantController.js: submitTenantApplication, each await a step  *)

\* the stored unit: its status, its owner and at most one listing
UnitInputs ==
    [status : {"AVAILABLE", "OCCUPIED"},
     ownerId : {3},
     listings : {<<>>} \cup
                { <<l>> : l \in [status : {"ACTIVE", "PENDING"},
                                 expiresAt : {Now0 - 1, Now0, Now0 + 1}] }]

\* the same, whatever the listings
unitRejectionAnyListing(tenantId, unitId) ==
    IF tenantId = 0
    THEN [status |-> 401, message |-> "Unauthorized: tenant not found"]
    ELSE IF unitId = 0
    THEN [status |-> 400, message |-> "Unit ID is required"]
    ELSE IF unitId \notin DOMAIN db.units
    THEN [status |-> 404, message |-> "Unit not found"]
    ELSE IF db.units[unitId].status # "AVAILABLE"
    THEN [status |-> 400, message |-> "Unit is not available for applications"]
    ELSE [status |-> 200, message |-> ""]

\* the checks up to unit.listings.length === 0; status 200 when all pass
unitRejection(tenantId, unitId) ==
    IF tenantId = 0
    THEN [status |-> 401, message |-> "Unauthorized: tenant not found"]
    ELSE IF unitId = 0
    THEN [status |-> 400, message |-> "Unit ID is required"]
    ELSE IF unitId \notin DOMAIN db.units
    THEN [status |-> 404, message |-> "Unit not found"]
    ELSE IF db.units[unitId].status # "AVAILABLE"
    THEN [status |-> 400, message |-> "Unit is not available for applications"]
    ELSE IF Len(Take(SelectSeq(db.units[unitId].listings,
                LAMBDA l : l.status = "ACTIVE" /\ l.expiresAt > now), 1)) = 0
    THEN [status |-> 400, message |-> "Unit is not actively listed"]
    ELSE [status |-> 200, message |-> ""]

\* tenantScreening rows of the tenant for the unit
applicationsOf(tenantId, unitId) ==
    SelectSeq(db.applications,
              LAMBDA a : a.tenantId = tenantId /\ a.unitId = unitId)

\* prisma.unit.findUnique and the checks on the unit
SubmitTenantApplicationUnit(p) ==
    /\ calls[p].pc = "idle"
    /\ \E tenantId \in {0, 1, 2}, unitId \in {0, 1, 2} :
          LET r == unitRejection(tenantId, unitId)
          IN IF r.status # 200
             THEN /\ resp' = [op |-> "submitTenantApplication",
                           status |-> r.status, message |-> r.message]
                  /\ calls' = calls
             ELSE /\ resp' = resp
                  /\ calls' = [calls EXCEPT ![p] =
                        [pc |-> "tenantScreening.findFirst",
                         answers |-> <<>>,
                         tenantId |-> tenantId,
                         unitId |-> unitId,
                         ownerId |-> db.units[unitId].ownerId]]
    /\ UNCHANGED <<tenant, now, locals, args, db>>

\* prisma.tenantScreening.findFirst({ where: { tenantId, unitId } })
SubmitTenantApplicationFindFirst(p) ==
    /\ calls[p].pc = "tenantScreening.findFirst"
    /\ IF applicationsOf(calls[p].tenantId, calls[p].unitId) # <<>>
       THEN /\ resp' = [op |-> "submitTenantApplication", status |-> 400,
                     message |-> "You already have an application for this unit"]
            /\ calls' = [calls EXCEPT ![p] = IdleCall]
       ELSE /\ resp' = resp
            /\ calls' = [calls EXCEPT ![p].pc = "tenantScreening.create"]
    /\ UNCHANGED <<tenant, now, locals, args, db>>

\* prisma.tenantScreening.create; tenantScreening is unique on
\* (tenantId, unitId), the key of the upsert in runTenantScreening, so a
\* second row is refused and the catch block answers 500
SubmitTenantApplicationCreate(p) ==
    /\ calls[p].pc = "tenantScreening.create"
    /\ IF applicationsOf(calls[p].tenantId, calls[p].unitId) # <<>>
       THEN /\ resp' = [op |-> "submitTenantApplication", status |-> 500,
                     message |-> "Failed to submit application"]
            /\ calls' = [calls EXCEPT ![p] = IdleCall]
            /\ db' = db
       ELSE /\ resp' = resp
            /\ calls' = [calls EXCEPT ![p].pc = "notification.create"]
            /\ db' = [db EXCEPT !.applications = Append(@,
                         [tenantId |-> calls[p].tenantId,
                          unitId |-> calls[p].unitId,
                          riskLevel |-> "LOW"])]
    /\ UNCHANGED <<tenant, now, locals, args>>

\* prisma.notification.create for the owner, then res.json
SubmitTenantApplicationNotify(p) ==
    /\ calls[p].pc = "notification.create"
    /\ db' = [db EXCEPT !.notifications = Append(@,
                 [userId |-> calls[p].ownerId,
                  type |-> "APPLICATION",
                  status |-> "UNREAD"])]
    /\ resp' = [op |-> "submitTenantApplication", status |-> 200,
                message |-> "Application submitted successfully"]
    /\ calls' = [calls EXCEPT ![p] = IdleCall]
    /\ UNCHANGED <<tenant, now, locals, args>>

InitApplication ==
    /\ db \in [table : {"application"},
               units : { <<unit>> : unit \in UnitInputs },
               applications : { <<>> },
               notifications : { <<>> }]
    /\ calls = [p \in Clients |-> IdleCall]
    /\ tenant = NoTenant
    /\ now = Now0
    /\ locals = NoLocals
    /\ resp = NoResp
    /\ args = NoArgs

NextApplication ==
    \E p \in Clients :
        \/ SubmitTenantApplicationUnit(p)
        \/ SubmitTenantApplicationFindFirst(p)
        \/ SubmitTenantApplicationCreate(p)
        \/ SubmitTenantApplicationNotify(p)

SpecApplication == InitApplication /\ [][NextApplication]_vars

\* the unit is stored, AVAILABLE and has an ACTIVE listing that has not expired
UnitOpen(unitId) ==
    /\ unitId \in DOMAIN db.units
    /\ db.units[unitId].status = "AVAILABLE"
    /\ \E k \in DOMAIN db.units[unitId].listings :
          /\ db.units[unitId].listings[k].status = "ACTIVE"
          /\ db.units[unitId].listings[k].expiresAt > now

\* no two applications of one tenant for one unit, and one notification for
\* each application whose call is over
ApplicationsUnique ==
    /\ \A i, j \in DOMAIN db.applications :
          ( /\ db.applications[i].tenantId = db.applications[j].tenantId
            /\ db.applications[i].unitId = db.applications[j].unitId ) => i = j
    /\ Len(db.notifications) <= Len(db.applications)

\* a step of submitTenantApplication either changes nothing stored, or adds
\* one application for an open unit the tenant had not applied for, or adds
\* the owner's notification and answers 200; a step that answers with an
\* error changes nothing stored
ApplicationStep ==
    /\ db'.units = db.units
    /\ \/ db' = db
       \/ /\ db'.notifications = db.notifications
          /\ \E t \in {1, 2}, u \in {0, 1, 2} :
                /\ db'.applications = Append(db.applications,
                      [tenantId |-> t, unitId |-> u, riskLevel |-> "LOW"])
                /\ UnitOpen(u)
                /\ \A i \in DOMAIN db.applications :
                      ~(db.applications[i].tenantId = t /\ db.applications[i].unitId = u)
          /\ resp' = resp
       \/ /\ db'.applications = db.applications
          /\ Len(db.notifications) < Len(db.applications)
          /\ Len(db'.notifications) = Len(db.notifications) + 1
          /\ resp'.status = 200
    /\ (resp' # resp /\ resp'.status # 200) => db' = db

(* C28: submitTenantApplication creates an application only when the unit  *)
(* exists, is AVAILABLE and has an unexpired ACTIVE listing and the tenant *)
(* has no application for it; there is never more than one application per *)
(* (tenant, unit); a call that is rejected creates no application and no   *)
(* notification.                                                           *)
C28_ApplicationGuarded ==
    []ApplicationsUnique /\ [][ApplicationStep]_vars

\* a second call of a tenant who has applied was refused and left the one
\* application and the one notification
C28_Witness ==
    /\ db.table = "application"
    /\ resp.op = "submitTenantApplication"
    /\ resp.status = 400
    /\ resp.message = "You already have an application for this unit"
    /\ Len(db.applications) = 1
    /\ Len(db.notifications) = 1

=============================================================================
